---- MODULE Spec2Model ----
(***************************************************************************)
(* The Dining Match backend (server.js): an in-memory array of restaurant  *)
(* records behind the handlers GET/POST/PUT/DELETE /api/restaurants and    *)
(* POST /api/reservations.                                                 *)
(*                                                                         *)
(* JavaScript values are tagged records, so that a field can hold a        *)
(* number, a string, an object or null as it can in the program. Strings   *)
(* are sequences of UTF-16 code units. A rating is held in tenths (4.8 is  *)
(* N(48)), the only non-integer numbers of the program.                    *)
(***************************************************************************)
EXTENDS Integers, Sequences, FiniteSets, TLC

\* ------------------------------------------------------------ JS values
N(n) == [t |-> "number", v |-> n]
S(s) == [t |-> "string", v |-> s]
Obj(o) == [t |-> "object", v |-> o]
Bool(b) == [t |-> "boolean", v |-> b]
Null == [t |-> "null"]
Undefined == [t |-> "undefined"]
NaN == [t |-> "NaN"]

\* ToBoolean: the test of `if (x)`, `!x`, `x || y`, `x && y`
Truthy(x) ==
  CASE x.t = "number" -> x.v # 0
    [] x.t = "string" -> Len(x.v) > 0
    [] x.t = "boolean" -> x.v
    [] x.t = "object" -> TRUE
    [] OTHER -> FALSE

\* x || y
OrElse(x, y) == IF Truthy(x) THEN x ELSE y

\* o.f on a record of the store or a request body: undefined when absent
Field(o, f) == IF f \in DOMAIN o THEN o[f] ELSE Undefined

\* x.f on a JS value: a property of an object, undefined on anything else
\* the inputs produce (strings and numbers have no such own property)
Prop(x, f) == IF x.t = "object" THEN Field(x.v, f) ELSE Undefined

\* {...a, ...b}
Spread(a, b) ==
  [f \in (DOMAIN a) \cup (DOMAIN b) |-> IF f \in DOMAIN b THEN b[f] ELSE a[f]]

\* ------------------------------------------------------------ strings
IsDigit(c) == c >= 48 /\ c <= 57
IsSpace(c) == c \in {9, 10, 11, 12, 13, 32}

\* String.prototype.toLowerCase on the ASCII range
toLowerCase(s) == [i \in 1..Len(s) |-> IF s[i] >= 65 /\ s[i] <= 90 THEN s[i] + 32 ELSE s[i]]

\* String.prototype.includes
includes(s, sub) ==
  \E i \in 0..(Len(s) - Len(sub)) : SubSeq(s, i + 1, i + Len(sub)) = sub

\* String.prototype.trim
trim(s) ==
  LET keep == {i \in 1..Len(s) : ~IsSpace(s[i])}
  IN  IF keep = {} THEN <<>>
      ELSE SubSeq(s, CHOOSE i \in keep : \A j \in keep : i <= j,
                     CHOOSE i \in keep : \A j \in keep : i >= j)

\* a < b on two strings: comparison by code units
StrLess(a, b) ==
  \E i \in 1..Len(b) :
     /\ \A j \in 1..(i - 1) : j <= Len(a) /\ a[j] = b[j]
     /\ i > Len(a) \/ (i - 1 < Len(a) /\ a[i] < b[i])

\* x < y: two strings compare by code units, two numbers by value; an
\* undefined or NaN operand makes every comparison false
Less(x, y) ==
  CASE x.t = "string" /\ y.t = "string" -> StrLess(x.v, y.v)
    [] x.t = "number" /\ y.t = "number" -> x.v < y.v
    [] OTHER -> FALSE

\* x >= y
GreaterEq(x, y) ==
  CASE x.t = "string" /\ y.t = "string" -> ~StrLess(x.v, y.v)
    [] x.t = "number" /\ y.t = "number" -> x.v >= y.v
    [] OTHER -> FALSE

\* x > y
Greater(x, y) == Less(y, x)

\* x === y
StrictEq(x, y) == x.t # "NaN" /\ x = y

RECURSIVE DigitsValue(_)
DigitsValue(ds) ==
  IF ds = <<>> THEN 0
  ELSE 10 * DigitsValue(SubSeq(ds, 1, Len(ds) - 1)) + (ds[Len(ds)] - 48)

\* the longest prefix of s made of digits
DigitPrefix(s) ==
  LET stop == {i \in 1..Len(s) : ~IsDigit(s[i])}
      n == IF stop = {} THEN Len(s) ELSE (CHOOSE i \in stop : \A j \in stop : i <= j) - 1
  IN  SubSeq(s, 1, n)

\* parseInt(x) in radix 10: leading white space and a sign are skipped, the
\* digits that follow are read, anything after them is ignored; NaN when
\* there is no digit. Numbers of the model are integers: parseInt(n) = n.
parseInt(x) ==
  CASE x.t = "number" -> x
    [] x.t = "string" ->
         LET s0 == x.v
             lead == {i \in 1..Len(s0) : ~IsSpace(s0[i])}
             s1 == IF lead = {} THEN <<>>
                   ELSE SubSeq(s0, CHOOSE i \in lead : \A j \in lead : i <= j, Len(s0))
             neg == s1 # <<>> /\ s1[1] = 45
             s2 == IF s1 # <<>> /\ s1[1] \in {43, 45} THEN Tail(s1) ELSE s1
             ds == DigitPrefix(s2)
         IN  IF ds = <<>> THEN NaN
             ELSE N(IF neg THEN 0 - DigitsValue(ds) ELSE DigitsValue(ds))
    [] OTHER -> NaN

\* parseFloat(x), in tenths: as parseInt, with one optional decimal digit
\* after a point (the inputs carry at most one); further digits are dropped
parseFloat(x) ==
  CASE x.t = "number" -> x
    [] x.t = "string" ->
         LET s0 == x.v
             lead == {i \in 1..Len(s0) : ~IsSpace(s0[i])}
             s1 == IF lead = {} THEN <<>>
                   ELSE SubSeq(s0, CHOOSE i \in lead : \A j \in lead : i <= j, Len(s0))
             neg == s1 # <<>> /\ s1[1] = 45
             s2 == IF s1 # <<>> /\ s1[1] \in {43, 45} THEN Tail(s1) ELSE s1
             ds == DigitPrefix(s2)
             rest == SubSeq(s2, Len(ds) + 1, Len(s2))
             frac == IF Len(rest) >= 2 /\ rest[1] = 46 /\ IsDigit(rest[2])
                     THEN rest[2] - 48 ELSE 0
             hasFrac == Len(rest) >= 2 /\ rest[1] = 46 /\ IsDigit(rest[2])
             mag == 10 * DigitsValue(ds) + frac
         IN  IF ds = <<>> /\ ~hasFrac THEN NaN
             ELSE N(IF neg THEN 0 - mag ELSE mag)
    [] OTHER -> NaN

isNaN(x) == x.t = "NaN"

RECURSIVE NatDigits(_)
NatDigits(n) == IF n < 10 THEN <<48 + n>> ELSE Append(NatDigits(n \div 10), 48 + (n % 10))

\* String(x) of a non-negative integer or a string
String(x) == IF x.t = "number" THEN S(NatDigits(x.v)) ELSE x

\* ------------------------------------------------------------ dates
\* /^\d{4}-\d{2}-\d{2}$/.test(s)
dateRegexTest(s) ==
  /\ Len(s) = 10
  /\ \A i \in {1, 2, 3, 4, 6, 7, 9, 10} : IsDigit(s[i])
  /\ s[5] = 45 /\ s[8] = 45

\* days from 1970-01-01 to the first of month m (1..12) of year y, in the
\* proleptic Gregorian calendar (ECMAScript MakeDay)
DaysFromCivil(y, m) ==
  LET yy == IF m <= 2 THEN y - 1 ELSE y
      era == yy \div 400
      yoe == yy - era * 400
      mp == (m + 9) % 12
      doy == (153 * mp + 2) \div 5
      doe == yoe * 365 + yoe \div 4 - yoe \div 100 + doy
  IN  era * 146097 + doe - 719468

\* new Date(s + 'T00:00:00Z') for s of the form YYYY-MM-DD, as the day number
\* of its time value, or NaN. Node's parser (V8) takes a month 01..12 and a
\* day 01..31 whatever the month; a day past the end of the month runs over
\* into the next month (2030-02-30 is read as 2030-03-02).
DateParse(s) ==
  IF ~dateRegexTest(s) THEN NaN
  ELSE LET y == DigitsValue(SubSeq(s, 1, 4))
           m == DigitsValue(SubSeq(s, 6, 7))
           d == DigitsValue(SubSeq(s, 9, 10))
       IN  IF m < 1 \/ m > 12 \/ d < 1 \/ d > 31 THEN NaN
           ELSE N(DaysFromCivil(y, m) + d - 1)

daysOfWeek == <<"Sunday", "Monday", "Tuesday", "Wednesday", "Thursday", "Friday", "Saturday">>

\* Date.prototype.getUTCDay of a day number: 1970-01-01 was a Thursday
getUTCDay(day) == (day + 4) % 7

getDayOfWeek(date) ==
  LET d == DateParse(date.v)
  IN  IF d.t = "number" THEN daysOfWeek[getUTCDay(d.v) + 1] ELSE "undefined"

\* ------------------------------------------------------------ helpers of server.js
\* an openingHours entry: { closed: true } and { open: "HH:MM", close: "HH:MM" }
ClosedDay == Obj([closed |-> Bool(TRUE)])
Hours(o, c) == Obj([open |-> o, close |-> c])

\* the string literal "HH:MM"
HM(h, m) == S(<<48 + (h \div 10), 48 + (h % 10), 58, 48 + (m \div 10), 48 + (m % 10)>>)

\* x - y and x + y on two numbers (the store of the model holds no other
\* operand types in maxGuests and currGuests)
Minus(x, y) == IF x.t = "number" /\ y.t = "number" THEN N(x.v - y.v) ELSE NaN
Plus(x, y) == IF x.t = "number" /\ y.t = "number" THEN N(x.v + y.v) ELSE NaN

isRestaurantOpen_ignoresClosed(restaurant, date, time) ==
  LET openingHours == Field(restaurant, "openingHours")
      hoursToday == Prop(openingHours, getDayOfWeek(date))
      openTime == Prop(hoursToday, "open")
      closeTime == Prop(hoursToday, "close")
  IN  IF ~Truthy(openingHours) THEN FALSE
      ELSE IF ~Truthy(hoursToday) THEN FALSE
      ELSE IF Less(closeTime, openTime)
           THEN GreaterEq(time, openTime) \/ Less(time, closeTime)
           ELSE GreaterEq(time, openTime) /\ Less(time, closeTime)

isRestaurantOpen_noOvernight(restaurant, date, time) ==
  LET openingHours == Field(restaurant, "openingHours")
      hoursToday == Prop(openingHours, getDayOfWeek(date))
      openTime == Prop(hoursToday, "open")
      closeTime == Prop(hoursToday, "close")
  IN  IF ~Truthy(openingHours) THEN FALSE
      ELSE IF ~Truthy(hoursToday) \/ Truthy(Prop(hoursToday, "closed")) THEN FALSE
      ELSE GreaterEq(time, openTime) /\ Less(time, closeTime)

isRestaurantOpen_closeInclusive(restaurant, date, time) ==
  LET openingHours == Field(restaurant, "openingHours")
      hoursToday == Prop(openingHours, getDayOfWeek(date))
      openTime == Prop(hoursToday, "open")
      closeTime == Prop(hoursToday, "close")
  IN  IF ~Truthy(openingHours) THEN FALSE
      ELSE IF ~Truthy(hoursToday) \/ Truthy(Prop(hoursToday, "closed")) THEN FALSE
      ELSE IF Less(closeTime, openTime)
           THEN GreaterEq(time, openTime) \/ ~Greater(time, closeTime)
           ELSE GreaterEq(time, openTime) /\ ~Greater(time, closeTime)

isRestaurantOpen_carriesOvernight(restaurant, date, time) ==
  LET openingHours == Field(restaurant, "openingHours")
      dayName == getDayOfWeek(date)
      dayBefore == [d \in {"Sunday", "Monday", "Tuesday", "Wednesday", "Thursday", "Friday", "Saturday"} |->
                      CASE d = "Sunday" -> "Saturday" [] d = "Monday" -> "Sunday"
                        [] d = "Tuesday" -> "Monday" [] d = "Wednesday" -> "Tuesday"
                        [] d = "Thursday" -> "Wednesday" [] d = "Friday" -> "Thursday"
                        [] OTHER -> "Friday"]
      hoursToday == Prop(openingHours, dayName)
      openTime == Prop(hoursToday, "open")
      closeTime == Prop(hoursToday, "close")
      hoursBefore == Prop(openingHours, dayBefore[dayName])
      carried == /\ Truthy(hoursBefore) /\ ~Truthy(Prop(hoursBefore, "closed"))
                 /\ Less(Prop(hoursBefore, "close"), Prop(hoursBefore, "open"))
                 /\ Less(time, Prop(hoursBefore, "close"))
  IN  IF ~Truthy(openingHours) THEN FALSE
      ELSE IF carried THEN TRUE
      ELSE IF ~Truthy(hoursToday) \/ Truthy(Prop(hoursToday, "closed")) THEN FALSE
      ELSE IF Less(closeTime, openTime)
           THEN GreaterEq(time, openTime) \/ Less(time, closeTime)
           ELSE GreaterEq(time, openTime) /\ Less(time, closeTime)

isRestaurantOpen_fallsBackToHoursString(restaurant, date, time) ==
  LET openingHours == Field(restaurant, "openingHours")
      hoursToday == Prop(openingHours, getDayOfWeek(date))
      openTime == Prop(hoursToday, "open")
      closeTime == Prop(hoursToday, "close")
  IN  IF ~Truthy(openingHours) THEN Truthy(Field(restaurant, "hours_of_operation"))
      ELSE IF ~Truthy(hoursToday) \/ Truthy(Prop(hoursToday, "closed")) THEN FALSE
      ELSE IF Less(closeTime, openTime)
           THEN GreaterEq(time, openTime) \/ Less(time, closeTime)
           ELSE GreaterEq(time, openTime) /\ Less(time, closeTime)

isRestaurantOpen(restaurant, date, time) ==
  LET openingHours == Field(restaurant, "openingHours")
      hoursToday == Prop(openingHours, getDayOfWeek(date))
      openTime == Prop(hoursToday, "open")
      closeTime == Prop(hoursToday, "close")
  IN  IF ~Truthy(openingHours) THEN FALSE
      ELSE IF ~Truthy(hoursToday) \/ Truthy(Prop(hoursToday, "closed")) THEN FALSE
      ELSE IF Less(closeTime, openTime)
           THEN GreaterEq(time, openTime) \/ Less(time, closeTime)
           ELSE GreaterEq(time, openTime) /\ Less(time, closeTime)

isOnBudget(restaurant, budget) ==
  StrictEq(OrElse(Field(restaurant, "price_range"), Field(restaurant, "priceRange")), budget)

\* the clock counts hours; a Date of midnight UTC of day number d is d * HoursPerDay
HoursPerDay == 24

\* today.setUTCHours(0, 0, 0, 0)
setUTCHours0(now) == now - (now % HoursPerDay)

validateDate_comparesInstants(dateString, now) ==
  IF ~(dateString.t = "string" /\ dateRegexTest(dateString.v))
  THEN [isValid |-> FALSE, error |-> "Date must be in YYYY-MM-DD format"]
  ELSE LET date == DateParse(dateString.v)
       IN  IF isNaN(date) THEN [isValid |-> FALSE, error |-> "Invalid date"]
           ELSE IF date.v * HoursPerDay < now
                THEN [isValid |-> FALSE, error |-> "Date cannot be in the past"]
                ELSE [isValid |-> TRUE, error |-> ""]

\* validateDate(dateString) when new Date() reads the clock as `now`
validateDate(dateString, now) ==
  IF ~(dateString.t = "string" /\ dateRegexTest(dateString.v))
  THEN [isValid |-> FALSE, error |-> "Date must be in YYYY-MM-DD format"]
  ELSE LET date == DateParse(dateString.v)
       IN  IF isNaN(date) THEN [isValid |-> FALSE, error |-> "Invalid date"]
           ELSE LET today == setUTCHours0(now)
                    inputDate == setUTCHours0(date.v * HoursPerDay)
                IN  IF inputDate < today
                    THEN [isValid |-> FALSE, error |-> "Date cannot be in the past"]
                    ELSE [isValid |-> TRUE, error |-> ""]

DefaultMaxGuests == 50

\* transformRestaurantToFrontendFormat: the fields of the response that depend
\* on the identity, the rating, the price tier and the capacity of the record
\* (address, openingHours and the descriptive fields are left out)
transformRestaurantToFrontendFormat(restaurant) ==
  [id |-> String(Field(restaurant, "id")),
   name |-> Field(restaurant, "name"),
   cuisine |-> Field(restaurant, "cuisine"),
   rating |-> Field(restaurant, "rating"),
   priceRange |-> OrElse(Field(restaurant, "price_range"), Field(restaurant, "priceRange")),
   maxGuests |-> OrElse(Field(restaurant, "maxGuests"), N(DefaultMaxGuests)),
   currGuests |-> OrElse(Field(restaurant, "currGuests"), N(0))]

\* transformRestaurantToFrontendFormat raises a TypeError: with no
\* openingHours it hands a truthy hours_of_operation to parseOpeningHours,
\* which starts with hoursString.toLowerCase(), a method only strings have
transformThrows(restaurant) ==
  /\ ~Truthy(Field(restaurant, "openingHours"))
  /\ Truthy(Field(restaurant, "hours_of_operation"))
  /\ Field(restaurant, "hours_of_operation").t # "string"

\* typeof r.id === 'string' ? parseInt(r.id) : r.id
IdOf(r) == IF r.id.t = "string" THEN parseInt(r.id) ELSE r.id

Max(set) == CHOOSE x \in set : \A y \in set : y <= x

getNextId_countsRecords(data) == N(Len(data) + 1)

getNextId(data) ==
  IF Len(data) = 0 THEN N(1)
  ELSE N(Max({IdOf(data[i]).v : i \in 1..Len(data)}) + 1)

\* Array.prototype.findIndex(r => id(r) === id), 1-based; 0 for -1
findIndex(data, id) ==
  LET hits == {i \in 1..Len(data) : StrictEq(IdOf(data[i]), id)}
  IN  IF hits = {} THEN 0 ELSE CHOOSE i \in hits : \A j \in hits : i <= j

priceTiers == {<<36>>, <<36, 36>>, <<36, 36, 36>>, <<36, 36, 36, 36>>}

\* validateRestaurant: the list of errors, in the order they are pushed
validateRestaurant(restaurant) ==
  LET name == Field(restaurant, "name")
      cuisine == Field(restaurant, "cuisine")
      address == Field(restaurant, "address")
      rating == Field(restaurant, "rating")
      priceRange == OrElse(Field(restaurant, "priceRange"), Field(restaurant, "price_range"))
      e1 == IF ~Truthy(name) \/ name.t # "string" \/ Len(trim(name.v)) = 0
            THEN <<"Name is required and must be a non-empty string">> ELSE <<>>
      e2 == IF ~Truthy(cuisine) \/ cuisine.t # "string" \/ Len(trim(cuisine.v)) = 0
            THEN <<"Cuisine is required and must be a non-empty string">> ELSE <<>>
      e3 == IF ~Truthy(address) THEN <<"Address is required">>
            ELSE IF address.t = "string" /\ Len(trim(address.v)) = 0
                 THEN <<"Address must be a non-empty string">>
            ELSE IF address.t = "object"
                 THEN (IF ~Truthy(Prop(address, "street")) \/ Prop(address, "street").t # "string"
                       THEN <<"Address street is required">> ELSE <<>>)
                      \o
                      (IF ~Truthy(Prop(address, "city")) \/ Prop(address, "city").t # "string"
                       THEN <<"Address city is required">> ELSE <<>>)
            ELSE <<>>
      e4 == IF rating.t \notin {"undefined", "null"}
            THEN LET r == parseFloat(rating)
                 IN  IF isNaN(r) \/ r.v < 0 \/ r.v > 50
                     THEN <<"Rating must be a number between 0 and 5">> ELSE <<>>
            ELSE <<>>
      e5 == IF Truthy(priceRange) /\ priceRange.t # "string"
            THEN <<"Price range must be a string">> ELSE <<>>
      e6 == IF Truthy(priceRange) /\ ~(priceRange.t = "string" /\ priceRange.v \in priceTiers)
            THEN <<"Price range must be one of: $, $$, $$$, $$$$">> ELSE <<>>
      errors == e1 \o e2 \o e3 \o e4 \o e5 \o e6
  IN  [isValid |-> Len(errors) = 0, errors |-> errors]

\* ------------------------------------------------------------ seed data
\* restaurantsData as the module is loaded
seedData ==
  << \* id 1: "Chef Yam", Seafood, "HaNamal St 12, Tel Aviv", rating 4.8, $$$
  [id |-> N(1),
   name |-> S(<<67,104,101,102,32,89,97,109>>),
   cuisine |-> S(<<83,101,97,102,111,111,100>>),
   address |-> S(<<72,97,78,97,109,97,108,32,83,116,32,49,50,44,32,84,101,108,32,65,118,105,118>>),
   rating |-> N(48),
   price_range |-> S(<<36,36,36>>),
   maxGuests |-> N(60),
   currGuests |-> N(0),
   openingHours |-> Obj([Sunday |-> ClosedDay,
      Monday |-> Hours(HM(12, 0), HM(23, 0)),
      Tuesday |-> Hours(HM(12, 0), HM(23, 0)),
      Wednesday |-> Hours(HM(12, 0), HM(23, 0)),
      Thursday |-> Hours(HM(12, 0), HM(23, 0)),
      Friday |-> Hours(HM(12, 0), HM(23, 0)),
      Saturday |-> ClosedDay])],
  \* id 2: "Mama Roma", Italian, "Ben Yehuda 45, Jerusalem", rating 4.5, $$
  [id |-> N(2),
   name |-> S(<<77,97,109,97,32,82,111,109,97>>),
   cuisine |-> S(<<73,116,97,108,105,97,110>>),
   address |-> S(<<66,101,110,32,89,101,104,117,100,97,32,52,53,44,32,74,101,114,117,115,97,108,101,109>>),
   rating |-> N(45),
   price_range |-> S(<<36,36>>),
   maxGuests |-> N(80),
   currGuests |-> N(0),
   openingHours |-> Obj([Sunday |-> Hours(HM(18, 0), HM(0, 0)),
      Monday |-> Hours(HM(18, 0), HM(0, 0)),
      Tuesday |-> Hours(HM(18, 0), HM(0, 0)),
      Wednesday |-> Hours(HM(18, 0), HM(0, 0)),
      Thursday |-> Hours(HM(18, 0), HM(0, 0)),
      Friday |-> Hours(HM(18, 0), HM(0, 0)),
      Saturday |-> Hours(HM(18, 0), HM(0, 0))])],
  \* id 3: "Shakshuka House", Middle Eastern, "Rothschild Blvd 23, Tel Aviv", rating 4.6, $
  [id |-> N(3),
   name |-> S(<<83,104,97,107,115,104,117,107,97,32,72,111,117,115,101>>),
   cuisine |-> S(<<77,105,100,100,108,101,32,69,97,115,116,101,114,110>>),
   address |-> S(<<82,111,116,104,115,99,104,105,108,100,32,66,108,118,100,32,50,51,44,32,84,101,108,32,65,118,105,118>>),
   rating |-> N(46),
   price_range |-> S(<<36>>),
   maxGuests |-> N(100),
   currGuests |-> N(0),
   openingHours |-> Obj([Sunday |-> Hours(HM(8, 0), HM(22, 0)),
      Monday |-> Hours(HM(8, 0), HM(22, 0)),
      Tuesday |-> Hours(HM(8, 0), HM(22, 0)),
      Wednesday |-> Hours(HM(8, 0), HM(22, 0)),
      Thursday |-> Hours(HM(8, 0), HM(22, 0)),
      Friday |-> Hours(HM(8, 0), HM(22, 0)),
      Saturday |-> Hours(HM(8, 0), HM(22, 0))])],
  \* id 4: "Sushi Bar", Japanese, "Dizengoff St 88, Tel Aviv", rating 4.7, $$$
  [id |-> N(4),
   name |-> S(<<83,117,115,104,105,32,66,97,114>>),
   cuisine |-> S(<<74,97,112,97,110,101,115,101>>),
   address |-> S(<<68,105,122,101,110,103,111,102,102,32,83,116,32,56,56,44,32,84,101,108,32,65,118,105,118>>),
   rating |-> N(47),
   price_range |-> S(<<36,36,36>>),
   maxGuests |-> N(50),
   currGuests |-> N(0),
   openingHours |-> Obj([Sunday |-> Hours(HM(18, 0), HM(23, 0)),
      Monday |-> Hours(HM(18, 0), HM(23, 0)),
      Tuesday |-> Hours(HM(18, 0), HM(23, 0)),
      Wednesday |-> Hours(HM(18, 0), HM(23, 0)),
      Thursday |-> Hours(HM(18, 0), HM(23, 0)),
      Friday |-> Hours(HM(12, 0), HM(16, 0)),
      Saturday |-> ClosedDay])],
  \* id 5: "Hummus Eliyahu", Middle Eastern, "Ben Yehuda St 3, Jerusalem", rating 4.9, $
  [id |-> N(5),
   name |-> S(<<72,117,109,109,117,115,32,69,108,105,121,97,104,117>>),
   cuisine |-> S(<<77,105,100,100,108,101,32,69,97,115,116,101,114,110>>),
   address |-> S(<<66,101,110,32,89,101,104,117,100,97,32,83,116,32,51,44,32,74,101,114,117,115,97,108,101,109>>),
   rating |-> N(49),
   price_range |-> S(<<36>>),
   maxGuests |-> N(40),
   currGuests |-> N(0),
   openingHours |-> Obj([Sunday |-> Hours(HM(10, 0), HM(20, 0)),
      Monday |-> Hours(HM(10, 0), HM(20, 0)),
      Tuesday |-> Hours(HM(10, 0), HM(20, 0)),
      Wednesday |-> Hours(HM(10, 0), HM(20, 0)),
      Thursday |-> Hours(HM(10, 0), HM(20, 0)),
      Friday |-> Hours(HM(10, 0), HM(20, 0)),
      Saturday |-> Hours(HM(10, 0), HM(20, 0))])],
  \* id 6: "La Gare", French, "King George St 19, Tel Aviv", rating 4.4, $$$$
  [id |-> N(6),
   name |-> S(<<76,97,32,71,97,114,101>>),
   cuisine |-> S(<<70,114,101,110,99,104>>),
   address |-> S(<<75,105,110,103,32,71,101,111,114,103,101,32,83,116,32,49,57,44,32,84,101,108,32,65,118,105,118>>),
   rating |-> N(44),
   price_range |-> S(<<36,36,36,36>>),
   maxGuests |-> N(40),
   currGuests |-> N(0),
   openingHours |-> Obj([Sunday |-> ClosedDay,
      Monday |-> Hours(HM(19, 0), HM(23, 30)),
      Tuesday |-> Hours(HM(19, 0), HM(23, 30)),
      Wednesday |-> Hours(HM(19, 0), HM(23, 30)),
      Thursday |-> Hours(HM(19, 0), HM(23, 30)),
      Friday |-> Hours(HM(19, 0), HM(23, 30)),
      Saturday |-> Hours(HM(19, 0), HM(23, 30))])],
  \* id 7: "Taizu", Asian Fusion, "HaArba'a St 23, Tel Aviv", rating 4.8, $$$
  [id |-> N(7),
   name |-> S(<<84,97,105,122,117>>),
   cuisine |-> S(<<65,115,105,97,110,32,70,117,115,105,111,110>>),
   address |-> S(<<72,97,65,114,98,97,39,97,32,83,116,32,50,51,44,32,84,101,108,32,65,118,105,118>>),
   rating |-> N(48),
   price_range |-> S(<<36,36,36>>),
   maxGuests |-> N(70),
   currGuests |-> N(0),
   openingHours |-> Obj([Sunday |-> Hours(HM(19, 0), HM(0, 0)),
      Monday |-> Hours(HM(19, 0), HM(0, 0)),
      Tuesday |-> Hours(HM(19, 0), HM(0, 0)),
      Wednesday |-> Hours(HM(19, 0), HM(0, 0)),
      Thursday |-> Hours(HM(19, 0), HM(0, 0)),
      Friday |-> Hours(HM(12, 0), HM(16, 0)),
      Saturday |-> ClosedDay])],
  \* id 8: "Max Brenner", Dessert, "Ben Yehuda St 50, Tel Aviv", rating 4.3, $$
  [id |-> N(8),
   name |-> S(<<77,97,120,32,66,114,101,110,110,101,114>>),
   cuisine |-> S(<<68,101,115,115,101,114,116>>),
   address |-> S(<<66,101,110,32,89,101,104,117,100,97,32,83,116,32,53,48,44,32,84,101,108,32,65,118,105,118>>),
   rating |-> N(43),
   price_range |-> S(<<36,36>>),
   maxGuests |-> N(90),
   currGuests |-> N(0),
   openingHours |-> Obj([Sunday |-> Hours(HM(10, 0), HM(23, 0)),
      Monday |-> Hours(HM(10, 0), HM(23, 0)),
      Tuesday |-> Hours(HM(10, 0), HM(23, 0)),
      Wednesday |-> Hours(HM(10, 0), HM(23, 0)),
      Thursday |-> Hours(HM(10, 0), HM(23, 0)),
      Friday |-> Hours(HM(10, 0), HM(23, 0)),
      Saturday |-> Hours(HM(10, 0), HM(1, 0))])],
  \* id 9: "Landwer Cafe", Cafe, "Rothschild Blvd 45, Tel Aviv", rating 4.2, $$
  [id |-> N(9),
   name |-> S(<<76,97,110,100,119,101,114,32,67,97,102,101>>),
   cuisine |-> S(<<67,97,102,101>>),
   address |-> S(<<82,111,116,104,115,99,104,105,108,100,32,66,108,118,100,32,52,53,44,32,84,101,108,32,65,118,105,118>>),
   rating |-> N(42),
   price_range |-> S(<<36,36>>),
   maxGuests |-> N(120),
   currGuests |-> N(0),
   openingHours |-> Obj([Sunday |-> Hours(HM(7, 0), HM(23, 0)),
      Monday |-> Hours(HM(7, 0), HM(23, 0)),
      Tuesday |-> Hours(HM(7, 0), HM(23, 0)),
      Wednesday |-> Hours(HM(7, 0), HM(23, 0)),
      Thursday |-> Hours(HM(7, 0), HM(23, 0)),
      Friday |-> Hours(HM(7, 0), HM(23, 0)),
      Saturday |-> Hours(HM(7, 0), HM(23, 0))])],
  \* id 10: "Machneyuda", Israeli, "Beit Ya'akov St 10, Jerusalem", rating 4.9, $$$
  [id |-> N(10),
   name |-> S(<<77,97,99,104,110,101,121,117,100,97>>),
   cuisine |-> S(<<73,115,114,97,101,108,105>>),
   address |-> S(<<66,101,105,116,32,89,97,39,97,107,111,118,32,83,116,32,49,48,44,32,74,101,114,117,115,97,108,101,109>>),
   rating |-> N(49),
   price_range |-> S(<<36,36,36>>),
   maxGuests |-> N(45),
   currGuests |-> N(0),
   openingHours |-> Obj([Sunday |-> Hours(HM(19, 0), HM(0, 0)),
      Monday |-> Hours(HM(19, 0), HM(0, 0)),
      Tuesday |-> Hours(HM(19, 0), HM(0, 0)),
      Wednesday |-> Hours(HM(19, 0), HM(0, 0)),
      Thursday |-> Hours(HM(19, 0), HM(0, 0)),
      Friday |-> ClosedDay,
      Saturday |-> ClosedDay])],
  \* id 11: "Burgerim", American, "Dizengoff Center, Tel Aviv", rating 4.1, $
  [id |-> N(11),
   name |-> S(<<66,117,114,103,101,114,105,109>>),
   cuisine |-> S(<<65,109,101,114,105,99,97,110>>),
   address |-> S(<<68,105,122,101,110,103,111,102,102,32,67,101,110,116,101,114,44,32,84,101,108,32,65,118,105,118>>),
   rating |-> N(41),
   price_range |-> S(<<36>>),
   maxGuests |-> N(110),
   currGuests |-> N(0),
   openingHours |-> Obj([Sunday |-> Hours(HM(11, 0), HM(23, 0)),
      Monday |-> Hours(HM(11, 0), HM(23, 0)),
      Tuesday |-> Hours(HM(11, 0), HM(23, 0)),
      Wednesday |-> Hours(HM(11, 0), HM(23, 0)),
      Thursday |-> Hours(HM(11, 0), HM(23, 0)),
      Friday |-> Hours(HM(11, 0), HM(23, 0)),
      Saturday |-> Hours(HM(11, 0), HM(23, 0))])],
  \* id 12: "Cafe Joe", Cafe, "Ben Gurion Blvd 1, Herzliya", rating 4.5, $$
  [id |-> N(12),
   name |-> S(<<67,97,102,101,32,74,111,101>>),
   cuisine |-> S(<<67,97,102,101>>),
   address |-> S(<<66,101,110,32,71,117,114,105,111,110,32,66,108,118,100,32,49,44,32,72,101,114,122,108,105,121,97>>),
   rating |-> N(45),
   price_range |-> S(<<36,36>>),
   maxGuests |-> N(85),
   currGuests |-> N(0),
   openingHours |-> Obj([Sunday |-> Hours(HM(8, 0), HM(22, 0)),
      Monday |-> Hours(HM(8, 0), HM(22, 0)),
      Tuesday |-> Hours(HM(8, 0), HM(22, 0)),
      Wednesday |-> Hours(HM(8, 0), HM(22, 0)),
      Thursday |-> Hours(HM(8, 0), HM(22, 0)),
      Friday |-> Hours(HM(8, 0), HM(22, 0)),
      Saturday |-> Hours(HM(8, 0), HM(22, 0))])],
  \* id 13: "Yakimono", Japanese, "HaArba'a St 8, Tel Aviv", rating 4.6, $$$
  [id |-> N(13),
   name |-> S(<<89,97,107,105,109,111,110,111>>),
   cuisine |-> S(<<74,97,112,97,110,101,115,101>>),
   address |-> S(<<72,97,65,114,98,97,39,97,32,83,116,32,56,44,32,84,101,108,32,65,118,105,118>>),
   rating |-> N(46),
   price_range |-> S(<<36,36,36>>),
   maxGuests |-> N(55),
   currGuests |-> N(0),
   openingHours |-> Obj([Sunday |-> Hours(HM(18, 0), HM(23, 0)),
      Monday |-> Hours(HM(18, 0), HM(23, 0)),
      Tuesday |-> Hours(HM(18, 0), HM(23, 0)),
      Wednesday |-> Hours(HM(18, 0), HM(23, 0)),
      Thursday |-> Hours(HM(18, 0), HM(23, 0)),
      Friday |-> ClosedDay,
      Saturday |-> ClosedDay])],
  \* id 14: "Abu Hassan", Middle Eastern, "Dolphin St 1, Jaffa", rating 4.8, $
  [id |-> N(14),
   name |-> S(<<65,98,117,32,72,97,115,115,97,110>>),
   cuisine |-> S(<<77,105,100,100,108,101,32,69,97,115,116,101,114,110>>),
   address |-> S(<<68,111,108,112,104,105,110,32,83,116,32,49,44,32,74,97,102,102,97>>),
   rating |-> N(48),
   price_range |-> S(<<36>>),
   maxGuests |-> N(35),
   currGuests |-> N(0),
   openingHours |-> Obj([Sunday |-> Hours(HM(8, 0), HM(16, 0)),
      Monday |-> Hours(HM(8, 0), HM(16, 0)),
      Tuesday |-> Hours(HM(8, 0), HM(16, 0)),
      Wednesday |-> Hours(HM(8, 0), HM(16, 0)),
      Thursday |-> Hours(HM(8, 0), HM(16, 0)),
      Friday |-> Hours(HM(8, 0), HM(16, 0)),
      Saturday |-> Hours(HM(8, 0), HM(16, 0))])],
  \* id 15: "The Eucalyptus", Israeli, "Hativat Yerushalayim St 14, Jerusalem", rating 4.7, $$$
  [id |-> N(15),
   name |-> S(<<84,104,101,32,69,117,99,97,108,121,112,116,117,115>>),
   cuisine |-> S(<<73,115,114,97,101,108,105>>),
   address |-> S(<<72,97,116,105,118,97,116,32,89,101,114,117,115,104,97,108,97,121,105,109,32,83,116,32,49,52,44,32,74,101,114,117,115,97,108,101,109>>),
   rating |-> N(47),
   price_range |-> S(<<36,36,36>>),
   maxGuests |-> N(65),
   currGuests |-> N(0),
   openingHours |-> Obj([Sunday |-> Hours(HM(12, 0), HM(23, 0)),
      Monday |-> Hours(HM(12, 0), HM(23, 0)),
      Tuesday |-> Hours(HM(12, 0), HM(23, 0)),
      Wednesday |-> Hours(HM(12, 0), HM(23, 0)),
      Thursday |-> Hours(HM(12, 0), HM(23, 0)),
      Friday |-> ClosedDay,
      Saturday |-> ClosedDay])],
  \* id 16: "Cafe Noir", French, "Ahad Ha'Am St 43, Tel Aviv", rating 4.4, $$
  [id |-> N(16),
   name |-> S(<<67,97,102,101,32,78,111,105,114>>),
   cuisine |-> S(<<70,114,101,110,99,104>>),
   address |-> S(<<65,104,97,100,32,72,97,39,65,109,32,83,116,32,52,51,44,32,84,101,108,32,65,118,105,118>>),
   rating |-> N(44),
   price_range |-> S(<<36,36>>),
   maxGuests |-> N(75),
   currGuests |-> N(0),
   openingHours |-> Obj([Sunday |-> Hours(HM(8, 0), HM(1, 0)),
      Monday |-> Hours(HM(8, 0), HM(1, 0)),
      Tuesday |-> Hours(HM(8, 0), HM(1, 0)),
      Wednesday |-> Hours(HM(8, 0), HM(1, 0)),
      Thursday |-> Hours(HM(8, 0), HM(1, 0)),
      Friday |-> Hours(HM(8, 0), HM(1, 0)),
      Saturday |-> Hours(HM(8, 0), HM(1, 0))])],
  \* id 17: "Roladin", Bakery, "Dizengoff St 50, Tel Aviv", rating 4.3, $
  [id |-> N(17),
   name |-> S(<<82,111,108,97,100,105,110>>),
   cuisine |-> S(<<66,97,107,101,114,121>>),
   address |-> S(<<68,105,122,101,110,103,111,102,102,32,83,116,32,53,48,44,32,84,101,108,32,65,118,105,118>>),
   rating |-> N(43),
   price_range |-> S(<<36>>),
   maxGuests |-> N(50),
   currGuests |-> N(0),
   openingHours |-> Obj([Sunday |-> Hours(HM(7, 0), HM(22, 0)),
      Monday |-> Hours(HM(7, 0), HM(22, 0)),
      Tuesday |-> Hours(HM(7, 0), HM(22, 0)),
      Wednesday |-> Hours(HM(7, 0), HM(22, 0)),
      Thursday |-> Hours(HM(7, 0), HM(22, 0)),
      Friday |-> Hours(HM(7, 0), HM(22, 0)),
      Saturday |-> Hours(HM(7, 0), HM(22, 0))])],
  \* id 18: "Herbert Samuel", Seafood, "Kaufmann St 6, Tel Aviv", rating 4.8, $$$$
  [id |-> N(18),
   name |-> S(<<72,101,114,98,101,114,116,32,83,97,109,117,101,108>>),
   cuisine |-> S(<<83,101,97,102,111,111,100>>),
   address |-> S(<<75,97,117,102,109,97,110,110,32,83,116,32,54,44,32,84,101,108,32,65,118,105,118>>),
   rating |-> N(48),
   price_range |-> S(<<36,36,36,36>>),
   maxGuests |-> N(50),
   currGuests |-> N(0),
   openingHours |-> Obj([Sunday |-> Hours(HM(19, 0), HM(23, 0)),
      Monday |-> Hours(HM(19, 0), HM(23, 0)),
      Tuesday |-> Hours(HM(19, 0), HM(23, 0)),
      Wednesday |-> Hours(HM(19, 0), HM(23, 0)),
      Thursday |-> Hours(HM(19, 0), HM(23, 0)),
      Friday |-> Hours(HM(12, 0), HM(16, 0)),
      Saturday |-> ClosedDay])],
  \* id 19: "Cafe Xoho", Cafe, "Gordon St 8, Tel Aviv", rating 4.5, $$
  [id |-> N(19),
   name |-> S(<<67,97,102,101,32,88,111,104,111>>),
   cuisine |-> S(<<67,97,102,101>>),
   address |-> S(<<71,111,114,100,111,110,32,83,116,32,56,44,32,84,101,108,32,65,118,105,118>>),
   rating |-> N(45),
   price_range |-> S(<<36,36>>),
   maxGuests |-> N(60),
   currGuests |-> N(0),
   openingHours |-> Obj([Sunday |-> Hours(HM(7, 30), HM(18, 0)),
      Monday |-> Hours(HM(7, 30), HM(18, 0)),
      Tuesday |-> Hours(HM(7, 30), HM(18, 0)),
      Wednesday |-> Hours(HM(7, 30), HM(18, 0)),
      Thursday |-> Hours(HM(7, 30), HM(18, 0)),
      Friday |-> Hours(HM(7, 30), HM(18, 0)),
      Saturday |-> Hours(HM(7, 30), HM(18, 0))])],
  \* id 20: "Tandoori", Indian, "Ben Yehuda St 30, Tel Aviv", rating 4.6, $$
  [id |-> N(20),
   name |-> S(<<84,97,110,100,111,111,114,105>>),
   cuisine |-> S(<<73,110,100,105,97,110>>),
   address |-> S(<<66,101,110,32,89,101,104,117,100,97,32,83,116,32,51,48,44,32,84,101,108,32,65,118,105,118>>),
   rating |-> N(46),
   price_range |-> S(<<36,36>>),
   maxGuests |-> N(70),
   currGuests |-> N(0),
   openingHours |-> Obj([Sunday |-> Hours(HM(12, 0), HM(23, 0)),
      Monday |-> Hours(HM(12, 0), HM(23, 0)),
      Tuesday |-> Hours(HM(12, 0), HM(23, 0)),
      Wednesday |-> Hours(HM(12, 0), HM(23, 0)),
      Thursday |-> Hours(HM(12, 0), HM(23, 0)),
      Friday |-> Hours(HM(12, 0), HM(23, 0)),
      Saturday |-> Hours(HM(12, 0), HM(23, 0))])] >>

\* ------------------------------------------------------------ handlers
\* Each handler is a function of the store, the current UTC day number and the
\* request; it yields the store after the request and the response: the HTTP
\* status, the kind of failure ("" on success) and the entities of the body.
Response(store, status, error, data) ==
  [store |-> store, status |-> status, error |-> error, data |-> data]

\* `${x}` for the values an address part can hold
TemplateText(x) ==
  CASE x.t = "string" -> x.v
    [] x.t = "number" -> NatDigits(x.v)
    [] OTHER -> <<117, 110, 100, 101, 102, 105, 110, 101, 100>>  \* "undefined"

\* the address text the location filter searches
addressText(restaurant) ==
  LET address == Field(restaurant, "address")
  IN  IF address.t = "string" THEN address.v
      ELSE TemplateText(Prop(address, "street")) \o <<32>>
           \o TemplateText(Prop(address, "number")) \o <<44, 32>>
           \o TemplateText(Prop(address, "city"))

\* the filters of GET /api/restaurants, each applied when its test holds
filterCuisine(data, q) ==
  LET cuisine == Field(q, "cuisine")
      keep(r) == includes(toLowerCase(Field(r, "cuisine").v), toLowerCase(cuisine.v))
  IN  IF Truthy(cuisine) THEN SelectSeq(data, keep) ELSE data

filterOpen(data, q) ==
  LET date == Field(q, "date")
      time == Field(q, "time")
      keep(r) == isRestaurantOpen(r, date, time)
  IN  IF Truthy(date) /\ Truthy(time) THEN SelectSeq(data, keep) ELSE data

filterBudget(data, q) ==
  LET budget == Field(q, "budget")
      keep(r) == isOnBudget(r, budget)
  IN  IF Truthy(budget) THEN SelectSeq(data, keep) ELSE data

filterLocation(data, q) ==
  LET location == Field(q, "location")
      keep(r) == includes(toLowerCase(addressText(r)), toLowerCase(location.v))
  IN  IF Truthy(location) THEN SelectSeq(data, keep) ELSE data

filterRating(data, q) ==
  LET rating == Field(q, "rating")
      minRating == parseFloat(rating)
      keep(r) == Truthy(Field(r, "rating")) /\ GreaterEq(Field(r, "rating"), minRating)
  IN  IF Truthy(rating) /\ ~isNaN(minRating) THEN SelectSeq(data, keep) ELSE data

filterNumGuests_strict(data, q) ==
  LET numGuests == Field(q, "numGuests")
      requestedGuests == parseInt(numGuests)
      keep(r) ==
        LET maxGuests == OrElse(Field(r, "maxGuests"), N(DefaultMaxGuests))
            currGuests == OrElse(Field(r, "currGuests"), N(0))
            available == Minus(maxGuests, currGuests)
        IN  Greater(available, requestedGuests)
  IN  IF Truthy(numGuests) /\ ~isNaN(requestedGuests) /\ requestedGuests.v > 0
      THEN SelectSeq(data, keep) ELSE data

filterNumGuests(data, q) ==
  LET numGuests == Field(q, "numGuests")
      requestedGuests == parseInt(numGuests)
      keep(r) ==
        LET maxGuests == OrElse(Field(r, "maxGuests"), N(DefaultMaxGuests))
            currGuests == OrElse(Field(r, "currGuests"), N(0))
            available == Minus(maxGuests, currGuests)
        IN  GreaterEq(available, requestedGuests)
  IN  IF Truthy(numGuests) /\ ~isNaN(requestedGuests) /\ requestedGuests.v > 0
      THEN SelectSeq(data, keep) ELSE data

Transformed_reversed(data) ==
  [i \in 1..Len(data) |-> transformRestaurantToFrontendFormat(data[Len(data) + 1 - i])]

\* filteredData.map(restaurant => transformRestaurantToFrontendFormat(restaurant))
Transformed(data) == [i \in 1..Len(data) |-> transformRestaurantToFrontendFormat(data[i])]

getRestaurants_keepsFiltered(data, now, q) ==
  LET date == Field(q, "date")
      time == Field(q, "time")
      dateValidation == validateDate(date, now)
      filteredData == filterNumGuests(filterRating(filterLocation(filterBudget(
                        filterOpen(filterCuisine(data, q), q), q), q), q), q)
  IN  IF Truthy(date) /\ Truthy(time) /\ ~dateValidation.isValid
      THEN Response(data, 400, dateValidation.error, <<>>)
      ELSE Response(filteredData, 200, "", Transformed(filteredData))

getRestaurants_validatesLoneDate(data, now, q) ==
  LET date == Field(q, "date")
      dateValidation == validateDate(date, now)
  IN  IF Truthy(date) /\ ~dateValidation.isValid
      THEN Response(data, 400, dateValidation.error, <<>>)
      ELSE Response(data, 200, "",
             Transformed(filterNumGuests(filterRating(filterLocation(filterBudget(
               filterOpen(filterCuisine(data, q), q), q), q), q), q)))

\* GET /api/restaurants
getRestaurants(data, now, q) ==
  LET date == Field(q, "date")
      time == Field(q, "time")
      dateValidation == validateDate(date, now)
      filteredData == filterNumGuests(filterRating(filterLocation(filterBudget(
                        filterOpen(filterCuisine(data, q), q), q), q), q), q)
  IN  IF Truthy(date) /\ Truthy(time) /\ ~dateValidation.isValid
      THEN Response(data, 400, dateValidation.error, <<>>)
      ELSE IF \E i \in 1..Len(filteredData) : transformThrows(filteredData[i])
      THEN Response(data, 500, "Internal server error", <<>>)
      ELSE Response(data, 200, "", Transformed(filteredData))

\* GET /api/restaurants/:id
getRestaurantById(data, idParam) ==
  LET id == parseInt(idParam)
      hits == {i \in 1..Len(data) : StrictEq(IdOf(data[i]), id)}
  IN  IF isNaN(id) THEN Response(data, 400, "Invalid restaurant ID format", <<>>)
      ELSE IF hits = {} THEN Response(data, 404, "not found", <<>>)
      ELSE LET restaurant == data[CHOOSE i \in hits : \A j \in hits : i <= j] IN
        IF transformThrows(restaurant) THEN Response(data, 500, "Internal server error", <<>>)
        ELSE Response(data, 200, "", <<transformRestaurantToFrontendFormat(restaurant)>>)

postRestaurant_keepsCapacity(data, body) ==
  LET validation == validateRestaurant(body)
      newRestaurant ==
        [id |-> getNextId(data),
         name |-> S(trim(Field(body, "name").v)),
         cuisine |-> S(trim(Field(body, "cuisine").v)),
         address |-> IF Field(body, "address").t = "object" THEN Field(body, "address")
                     ELSE S(trim(Field(body, "address").v)),
         rating |-> IF Truthy(Field(body, "rating")) THEN parseFloat(Field(body, "rating")) ELSE Null,
         price_range |-> OrElse(OrElse(Field(body, "priceRange"), Field(body, "price_range")), Null),
         hours_of_operation |-> IF Truthy(Field(body, "openingHours")) THEN Null
                                ELSE OrElse(Field(body, "hours_of_operation"), Null),
         openingHours |-> OrElse(Field(body, "openingHours"), Null),
         imageUrl |-> OrElse(Field(body, "imageUrl"), Null),
         phoneNumber |-> OrElse(Field(body, "phoneNumber"), Null),
         website |-> OrElse(Field(body, "website"), Null),
         description |-> OrElse(Field(body, "description"), Null),
         dietaryOptions |-> OrElse(Field(body, "dietaryOptions"), Null),
         features |-> OrElse(Field(body, "features"), Null),
         maxGuests |-> OrElse(Field(body, "maxGuests"), N(DefaultMaxGuests)),
         currGuests |-> OrElse(Field(body, "currGuests"), N(0))]
  IN  IF ~validation.isValid THEN Response(data, 400, "Validation failed", <<>>)
      ELSE IF Field(body, "address").t \notin {"object", "string"}
      THEN Response(data, 500, "Internal server error", <<>>)
      ELSE IF transformThrows(newRestaurant)
      THEN Response(Append(data, newRestaurant), 500, "Internal server error", <<>>)
      ELSE Response(Append(data, newRestaurant), 201, "",
                    <<transformRestaurantToFrontendFormat(newRestaurant)>>)

\* POST /api/restaurants
postRestaurant(data, body) ==
  LET validation == validateRestaurant(body)
      newRestaurant ==
        [id |-> getNextId(data),
         name |-> S(trim(Field(body, "name").v)),
         cuisine |-> S(trim(Field(body, "cuisine").v)),
         address |-> IF Field(body, "address").t = "object" THEN Field(body, "address")
                     ELSE S(trim(Field(body, "address").v)),
         rating |-> IF Truthy(Field(body, "rating")) THEN parseFloat(Field(body, "rating")) ELSE Null,
         price_range |-> OrElse(OrElse(Field(body, "priceRange"), Field(body, "price_range")), Null),
         hours_of_operation |-> IF Truthy(Field(body, "openingHours")) THEN Null
                                ELSE OrElse(Field(body, "hours_of_operation"), Null),
         openingHours |-> OrElse(Field(body, "openingHours"), Null),
         imageUrl |-> OrElse(Field(body, "imageUrl"), Null),
         phoneNumber |-> OrElse(Field(body, "phoneNumber"), Null),
         website |-> OrElse(Field(body, "website"), Null),
         description |-> OrElse(Field(body, "description"), Null),
         dietaryOptions |-> OrElse(Field(body, "dietaryOptions"), Null),
         features |-> OrElse(Field(body, "features"), Null)]
  IN  IF ~validation.isValid THEN Response(data, 400, "Validation failed", <<>>)
      \* req.body.address.trim() of an address that is no string and no object
      ELSE IF Field(body, "address").t \notin {"object", "string"}
      THEN Response(data, 500, "Internal server error", <<>>)
      \* the record is pushed before it is transformed
      ELSE IF transformThrows(newRestaurant)
      THEN Response(Append(data, newRestaurant), 500, "Internal server error", <<>>)
      ELSE Response(Append(data, newRestaurant), 201, "",
                    <<transformRestaurantToFrontendFormat(newRestaurant)>>)

putRestaurant_bodyIdWins(data, idParam, body) ==
  LET id == parseInt(idParam)
      restaurantIndex == findIndex(data, id)
      validation == validateRestaurant(body)
      updated == Spread(data[restaurantIndex], body)
  IN  IF isNaN(id) THEN Response(data, 400, "Invalid restaurant ID format", <<>>)
      ELSE IF restaurantIndex = 0 THEN Response(data, 404, "not found", <<>>)
      ELSE IF ~validation.isValid THEN Response(data, 400, "Validation failed", <<>>)
      ELSE Response([data EXCEPT ![restaurantIndex] = updated], 200, "",
                    <<transformRestaurantToFrontendFormat(updated)>>)

\* PUT /api/restaurants/:id
putRestaurant(data, idParam, body) ==
  LET id == parseInt(idParam)
      restaurantIndex == findIndex(data, id)
      validation == validateRestaurant(body)
      updateData0 == Spread(body, [id |-> id])
      updateData ==
        IF Truthy(Field(body, "priceRange")) /\ ~Truthy(Field(body, "price_range"))
        THEN Spread(updateData0, [price_range |-> Field(body, "priceRange")])
        ELSE updateData0
      updated == Spread(data[restaurantIndex], updateData)
  IN  IF isNaN(id) THEN Response(data, 400, "Invalid restaurant ID format", <<>>)
      ELSE IF restaurantIndex = 0 THEN Response(data, 404, "not found", <<>>)
      ELSE IF ~validation.isValid THEN Response(data, 400, "Validation failed", <<>>)
      \* the record is replaced before it is transformed
      ELSE IF transformThrows(updated)
      THEN Response([data EXCEPT ![restaurantIndex] = updated], 500, "Internal server error", <<>>)
      ELSE Response([data EXCEPT ![restaurantIndex] = updated], 200, "",
                    <<transformRestaurantToFrontendFormat(updated)>>)

splice1_dropsFirst(data, index) == SubSeq(data, 2, Len(data))

\* Array.prototype.splice(index, 1)
splice1(data, index) == SubSeq(data, 1, index - 1) \o SubSeq(data, index + 1, Len(data))

\* DELETE /api/restaurants/:id
deleteRestaurant(data, idParam) ==
  LET id == parseInt(idParam)
      restaurantIndex == findIndex(data, id)
  IN  IF isNaN(id) THEN Response(data, 400, "Invalid restaurant ID format", <<>>)
      ELSE IF restaurantIndex = 0 THEN Response(data, 404, "not found", <<>>)
      ELSE Response(splice1(data, restaurantIndex), 200, "", <<>>)

\* the capacity left: (maxGuests || 50) - (currGuests || 0)
availableCapacity_ignoresGuests(restaurant) ==
  OrElse(Field(restaurant, "maxGuests"), N(DefaultMaxGuests))

availableCapacity(restaurant) ==
  Minus(OrElse(Field(restaurant, "maxGuests"), N(DefaultMaxGuests)),
        OrElse(Field(restaurant, "currGuests"), N(0)))

\* the record after restaurant.currGuests = (restaurant.currGuests || 0) + guests
withGuests_overwrites(restaurant, guests) ==
  Spread(restaurant, [currGuests |-> guests])

withGuests_subtracts(restaurant, guests) ==
  Spread(restaurant, [currGuests |-> Minus(OrElse(Field(restaurant, "currGuests"), N(0)), guests)])

withGuests(restaurant, guests) ==
  Spread(restaurant, [currGuests |-> Plus(OrElse(Field(restaurant, "currGuests"), N(0)), guests)])

postReservation_countsBeforeOpenCheck(data, now, body) ==
  LET restaurantId == Field(body, "restaurantId")
      date == Field(body, "date")
      time == Field(body, "time")
      numGuests == Field(body, "numGuests")
      guests == parseInt(numGuests)
      restaurantIdNum == parseInt(restaurantId)
  IN  IF ~Truthy(restaurantId) \/ ~Truthy(date) \/ ~Truthy(time) \/ ~Truthy(numGuests)
      THEN Response(data, 400, "Missing required fields", <<>>)
      ELSE IF ~validateDate(date, now).isValid THEN Response(data, 400, validateDate(date, now).error, <<>>)
      ELSE IF isNaN(guests) \/ guests.v <= 0
           THEN Response(data, 400, "numGuests must be a positive number", <<>>)
      ELSE IF isNaN(restaurantIdNum) THEN Response(data, 400, "Invalid restaurant ID format", <<>>)
      ELSE LET restaurantIndex == findIndex(data, restaurantIdNum) IN
        IF restaurantIndex = 0 THEN Response(data, 404, "not found", <<>>)
        ELSE IF ~isRestaurantOpen(data[restaurantIndex], date, time)
             THEN Response([data EXCEPT ![restaurantIndex] = withGuests(data[restaurantIndex], guests)],
                           400, "Restaurant is not open at the requested date and time", <<>>)
        ELSE IF Greater(guests, availableCapacity(data[restaurantIndex]))
             THEN Response(data, 400, "Not enough capacity", <<>>)
        ELSE Response([data EXCEPT ![restaurantIndex] = withGuests(data[restaurantIndex], guests)], 201, "",
                      <<transformRestaurantToFrontendFormat(withGuests(data[restaurantIndex], guests))>>)

postReservation_countsPerDate(data, now, body) ==
  LET restaurantId == Field(body, "restaurantId")
      date == Field(body, "date")
      time == Field(body, "time")
      numGuests == Field(body, "numGuests")
      guests == parseInt(numGuests)
      restaurantIdNum == parseInt(restaurantId)
  IN  IF ~Truthy(restaurantId) \/ ~Truthy(date) \/ ~Truthy(time) \/ ~Truthy(numGuests)
      THEN Response(data, 400, "Missing required fields", <<>>)
      ELSE IF ~validateDate(date, now).isValid THEN Response(data, 400, validateDate(date, now).error, <<>>)
      ELSE IF isNaN(guests) \/ guests.v <= 0
           THEN Response(data, 400, "numGuests must be a positive number", <<>>)
      ELSE IF isNaN(restaurantIdNum) THEN Response(data, 400, "Invalid restaurant ID format", <<>>)
      ELSE LET restaurantIndex == findIndex(data, restaurantIdNum) IN
        IF restaurantIndex = 0 THEN Response(data, 404, "not found", <<>>)
        ELSE LET restaurant == data[restaurantIndex]
                 counted == IF Field(restaurant, "reservedDate") = date THEN restaurant
                            ELSE Spread(restaurant, [currGuests |-> N(0)])
                 stored == Spread(withGuests(restaurant, guests), [reservedDate |-> date])
             IN
          IF ~isRestaurantOpen(restaurant, date, time)
          THEN Response(data, 400, "Restaurant is not open at the requested date and time", <<>>)
          ELSE IF Greater(guests, availableCapacity(counted))
          THEN Response(data, 400, "Not enough capacity", <<>>)
          ELSE Response([data EXCEPT ![restaurantIndex] = stored], 201, "",
                        <<transformRestaurantToFrontendFormat(stored)>>)

\* POST /api/reservations
postReservation(data, now, body) ==
  LET restaurantId == Field(body, "restaurantId")
      date == Field(body, "date")
      time == Field(body, "time")
      numGuests == Field(body, "numGuests")
      dateValidation == validateDate(date, now)
      guests == parseInt(numGuests)
      restaurantIdNum == parseInt(restaurantId)
      restaurantIndex == findIndex(data, restaurantIdNum)
      restaurant == data[restaurantIndex]
  IN  IF ~Truthy(restaurantId) \/ ~Truthy(date) \/ ~Truthy(time) \/ ~Truthy(numGuests)
      THEN Response(data, 400, "Missing required fields", <<>>)
      ELSE IF ~dateValidation.isValid THEN Response(data, 400, dateValidation.error, <<>>)
      ELSE IF isNaN(guests) \/ guests.v <= 0
           THEN Response(data, 400, "numGuests must be a positive number", <<>>)
      ELSE IF isNaN(restaurantIdNum) THEN Response(data, 400, "Invalid restaurant ID format", <<>>)
      ELSE IF restaurantIndex = 0 THEN Response(data, 404, "not found", <<>>)
      ELSE IF ~isRestaurantOpen(restaurant, date, time)
           THEN Response(data, 400, "Restaurant is not open at the requested date and time", <<>>)
      ELSE IF Greater(guests, availableCapacity(restaurant))
           THEN Response(data, 400, "Not enough capacity", <<>>)
      \* the count is stored before the record is transformed
      ELSE IF transformThrows(withGuests(restaurant, guests))
           THEN Response([data EXCEPT ![restaurantIndex] = withGuests(restaurant, guests)],
                         500, "Internal server error", <<>>)
      ELSE Response([data EXCEPT ![restaurantIndex] = withGuests(restaurant, guests)], 201, "",
                    <<transformRestaurantToFrontendFormat(withGuests(restaurant, guests))>>)

\* ------------------------------------------------------------ state
VARIABLES
  restaurantsData,  \* the in-memory array of restaurant records
  today,            \* the current UTC date, as a day number (the clock read by validateDate)
  hour,             \* the current UTC hour of that day
  response          \* the request being answered and its response; Idle between requests

vars == <<restaurantsData, today, hour, response>>

\* ------------------------------------------------------------ requests
\* The server starts on 2030-02-27, a Wednesday.
StartDay == DateParse(<<50, 48, 51, 48, 45, 48, 50, 45, 50, 55>>).v

MaxDays == 1   \* the clock stops once it has advanced so many days
MaxId == 21    \* inserts stop once the next id would pass it

D_slashes == S(<<50, 48, 51, 48, 47, 48, 51, 47, 48, 52>>)   \* not YYYY-MM-DD
D_month13 == S(<<50, 48, 51, 48, 45, 49, 51, 45, 48, 49>>)   \* no such month
D_feb30 == S(<<50, 48, 51, 48, 45, 48, 50, 45, 51, 48>>)     \* no such day; read as Saturday 2030-03-02
D_past == S(<<50, 48, 51, 48, 45, 48, 50, 45, 50, 54>>)      \* the day before the start
D_start == S(<<50, 48, 51, 48, 45, 48, 50, 45, 50, 55>>)     \* the start day, a Wednesday
D_friday == S(<<50, 48, 51, 48, 45, 48, 51, 45, 48, 49>>)    \* a Friday
D_monday == S(<<50, 48, 51, 48, 45, 48, 51, 45, 48, 52>>)    \* a Monday
D_saturday == S(<<50, 48, 51, 48, 45, 48, 51, 45, 48, 57>>)  \* a Saturday
D_sunday == S(<<50, 48, 51, 48, 45, 48, 51, 45, 49, 48>>)    \* a Sunday

\* bodies of POST /api/reservations
ReserveBodies ==
  [restaurantId : {N(1), S(<<50, 49>>), N(99), Undefined},
   date : {D_slashes, D_past, D_monday, D_saturday},
   time : {HM(13, 0), HM(23, 0)},
   numGuests : {N(25), S(<<52, 48>>), N(0)}]

\* more of them, for the runs that only reserve
ManyReserveBodies ==
  [restaurantId : {N(1), S(<<56>>), N(21), N(99), S(<<120, 49>>), Undefined},
   date : {D_slashes, D_feb30, D_past, D_start, D_monday, Undefined},
   time : {HM(13, 0), HM(0, 30)},
   numGuests : {N(25), S(<<52, 48>>), N(0), S(<<45, 51>>), S(<<109, 97, 110, 121>>)}]

\* query strings of GET /api/restaurants
NoCriteria ==
  [cuisine |-> Undefined, date |-> Undefined, time |-> Undefined, budget |-> Undefined,
   location |-> Undefined, rating |-> Undefined, numGuests |-> Undefined]

Queries ==
  {NoCriteria,
   [NoCriteria EXCEPT !.cuisine = S(<<83, 69, 65>>)],
   [NoCriteria EXCEPT !.date = D_monday, !.time = HM(13, 0)],
   [NoCriteria EXCEPT !.date = D_past, !.time = HM(13, 0)],
   [NoCriteria EXCEPT !.date = D_slashes],
   [NoCriteria EXCEPT !.rating = S(<<52, 46, 55>>)],
   [NoCriteria EXCEPT !.numGuests = S(<<52, 48>>)],
   [NoCriteria EXCEPT !.date = D_monday, !.time = HM(13, 0), !.numGuests = S(<<50, 53>>)]}

\* every combination of criteria, for the runs that search
ManyQueries ==
  [cuisine : {Undefined, S(<<83, 69, 65>>)},
   date : {Undefined, D_slashes, D_month13, D_feb30, D_past, D_monday},
   time : {Undefined, HM(13, 0), HM(0, 30)},
   budget : {Undefined, S(<<36, 36, 36>>)},
   location : {Undefined, S(<<116, 101, 108, 32, 97, 118, 105, 118>>)},
   rating : {Undefined, S(<<52, 46, 55>>), S(<<48>>), S(<<104, 105, 103, 104>>)},
   numGuests : {Undefined, S(<<53, 48>>), S(<<48>>)}]

\* dates and times around the opening hours of the seed data and of weekHours
OpenDates == {D_start, D_friday, D_monday, D_saturday, D_sunday}
OpenTimes ==
  {HM(0, 0), HM(1, 0), HM(2, 0), HM(9, 0), HM(12, 0), HM(13, 0), HM(22, 0), HM(23, 0), HM(23, 30)}
OpenQueries ==
  {[NoCriteria EXCEPT !.date = d, !.time = t] : d \in OpenDates, t \in OpenTimes}
OpenReserveBodies ==
  [restaurantId : {N(1), N(8), N(21)}, date : OpenDates, time : OpenTimes, numGuests : {N(40)}]

\* dates on both sides of the clock and dates that are none, for the runs
\* about date validation
CheckedDates == {D_slashes, D_month13, D_feb30, D_past, D_start, D_friday, D_monday}
DateQueries ==
  {[NoCriteria EXCEPT !.date = d, !.time = t] : d \in CheckedDates, t \in {HM(13, 0), HM(0, 30)}}
DateReserveBodies ==
  [restaurantId : {N(1), N(99), Undefined}, date : CheckedDates, time : {HM(13, 0), HM(0, 30)},
   numGuests : {N(40), S(<<109, 97, 110, 121>>)}]

\* bodies of POST /api/restaurants
weekHours ==
  Obj([Monday |-> Hours(HM(12, 0), HM(23, 0)),
       Friday |-> Hours(HM(22, 0), HM(2, 0)),
       Saturday |-> Obj([closed |-> Bool(TRUE), open |-> HM(10, 0), close |-> HM(20, 0)]),
       Sunday |-> Hours(HM(9, 0), HM(9, 0))])

B_plain ==
  [name |-> S(<<32, 67, 97, 102, 101, 32, 88, 32>>), cuisine |-> S(<<67, 97, 102, 101>>), address |-> S(<<77, 97, 105, 110, 32, 83, 116, 32, 49, 44, 32, 72, 97, 105, 102, 97>>),
   hours_of_operation |-> S(<<68, 97, 105, 108, 121, 58, 32, 48, 56, 58, 48, 48, 45, 50, 50, 58, 48, 48>>), maxGuests |-> N(10), currGuests |-> N(5)]
B_full ==
  [name |-> S(<<83, 101, 97, 32, 71, 114, 105, 108, 108>>), cuisine |-> S(<<83, 101, 97, 102, 111, 111, 100>>),
   address |-> Obj([street |-> S(<<80, 111, 114, 116, 32, 82, 100>>), city |-> S(<<84, 101, 108, 32, 65, 118, 105, 118>>)]),
   rating |-> S(<<48>>), priceRange |-> S(<<36, 36, 36>>), openingHours |-> weekHours]
B_noName ==
  [name |-> S(<<32, 32>>), cuisine |-> S(<<67, 97, 102, 101>>), address |-> S(<<77, 97, 105, 110, 32, 83, 116, 32, 49, 44, 32, 72, 97, 105, 102, 97>>)]
InsertBodies == {B_plain, B_full, B_noName}

\* bodies of PUT /api/restaurants/:id
U_guests ==
  [name |-> S(<<67, 104, 101, 102, 32, 89, 97, 109>>), cuisine |-> S(<<83, 101, 97, 102, 111, 111, 100>>), address |-> S(<<72, 97, 78, 97, 109, 97, 108, 32, 83, 116, 32, 49, 50, 44, 32, 84, 101, 108, 32, 65, 118, 105, 118>>),
   maxGuests |-> N(30), currGuests |-> N(45)]
U_hours ==
  [id |-> N(5), name |-> S(<<83, 101, 97, 32, 71, 114, 105, 108, 108>>), cuisine |-> S(<<71, 114, 105, 108, 108>>), address |-> S(<<80, 111, 114, 116, 32, 82, 100, 32, 50, 44, 32, 74, 97, 102, 102, 97>>),
   rating |-> N(0), openingHours |-> weekHours]
U_ratingOnly == [rating |-> N(45)]
UpdateBodies == {U_guests, U_hours, U_ratingOnly}

\* bodies that carry a price tier, under one spelling or both
B_badTier ==
  [name |-> S(<<67, 97, 102, 101, 32, 88>>), cuisine |-> S(<<67, 97, 102, 101>>), address |-> S(<<77, 97, 105, 110, 32, 83, 116, 32, 49, 44, 32, 72, 97, 105, 102, 97>>),
   price_range |-> S(<<99, 104, 101, 97, 112>>)]
B_twoTiers ==
  [name |-> S(<<67, 97, 102, 101, 32, 88>>), cuisine |-> S(<<67, 97, 102, 101>>), address |-> S(<<77, 97, 105, 110, 32, 83, 116, 32, 49, 44, 32, 72, 97, 105, 102, 97>>),
   priceRange |-> S(<<36, 36>>), price_range |-> S(<<99, 104, 101, 97, 112>>)]
TierInsertBodies == {B_full, B_badTier, B_twoTiers}

U_tier ==
  [name |-> S(<<67, 104, 101, 102, 32, 89, 97, 109>>), cuisine |-> S(<<83, 101, 97, 102, 111, 111, 100>>), address |-> S(<<72, 97, 78, 97, 109, 97, 108, 32, 83, 116, 32, 49, 50, 44, 32, 84, 101, 108, 32, 65, 118, 105, 118>>),
   priceRange |-> S(<<36>>)]
U_badTier ==
  [name |-> S(<<67, 104, 101, 102, 32, 89, 97, 109>>), cuisine |-> S(<<83, 101, 97, 102, 111, 111, 100>>), address |-> S(<<72, 97, 78, 97, 109, 97, 108, 32, 83, 116, 32, 49, 50, 44, 32, 84, 101, 108, 32, 65, 118, 105, 118>>),
   priceRange |-> S(<<99, 104, 101, 97, 112>>)]
U_twoTiers ==
  [name |-> S(<<67, 104, 101, 102, 32, 89, 97, 109>>), cuisine |-> S(<<83, 101, 97, 102, 111, 111, 100>>), address |-> S(<<72, 97, 78, 97, 109, 97, 108, 32, 83, 116, 32, 49, 50, 44, 32, 84, 101, 108, 32, 65, 118, 105, 118>>),
   priceRange |-> S(<<36, 36>>), price_range |-> S(<<99, 104, 101, 97, 112>>)]
TierUpdateBodies == {U_tier, U_badTier, U_twoTiers}

\* bodies whose hours or address are of another type than the handlers read
B_hoursObject ==
  [name |-> S(<<67, 97, 102, 101, 32, 88>>), cuisine |-> S(<<67, 97, 102, 101>>), address |-> S(<<77, 97, 105, 110, 32, 83, 116, 32, 49, 44, 32, 72, 97, 105, 102, 97>>),
   hours_of_operation |-> weekHours]
B_numberAddress ==
  [name |-> S(<<67, 97, 102, 101, 32, 88>>), cuisine |-> S(<<67, 97, 102, 101>>), address |-> N(7)]
FaultInsertBodies == {B_plain, B_noName, B_hoursObject, B_numberAddress}

U_hoursObject ==
  [name |-> S(<<67, 97, 102, 101, 32, 88>>), cuisine |-> S(<<67, 97, 102, 101>>), address |-> S(<<77, 97, 105, 110, 32, 83, 116, 32, 49, 44, 32, 72, 97, 105, 102, 97>>),
   hours_of_operation |-> weekHours]
FaultUpdateBodies == {U_hoursObject, U_ratingOnly, U_guests}

\* a body that carries opening hours and a capacity
B_sized ==
  [name |-> S(<<83, 101, 97, 32, 71, 114, 105, 108, 108>>), cuisine |-> S(<<83, 101, 97, 102, 111, 111, 100>>), address |-> S(<<80, 111, 114, 116, 32, 82, 100, 32, 50, 44, 32, 74, 97, 102, 102, 97>>),
   openingHours |-> weekHours, maxGuests |-> N(10), currGuests |-> N(5)]

\* searches and reservations for a party at a date and a time: seed restaurant
\* 1 and weekHours are open on Monday at 13:00, restaurant 1 on Friday at
\* 13:00, weekHours on Friday at 22:00, none on Saturday
CapacityDates == {D_monday, D_friday, D_saturday}
CapacityTimes == {HM(13, 0), HM(22, 0)}
CapacityQueries ==
  {[NoCriteria EXCEPT !.date = d, !.time = t, !.numGuests = n] :
     d \in CapacityDates, t \in CapacityTimes, n \in {S(<<50, 53>>), S(<<52, 48>>)}}
CapacityReserveBodies ==
  [restaurantId : {N(1), N(21)}, date : CapacityDates, time : CapacityTimes,
   numGuests : {N(25), S(<<52, 48>>)}]

\* a body without hours of either kind
B_bare ==
  [name |-> S(<<75, 105, 111, 115, 107>>), cuisine |-> S(<<67, 97, 102, 101>>), address |-> S(<<77, 97, 105, 110, 32, 83, 116, 32, 51, 44, 32, 72, 97, 105, 102, 97>>)]

\* searches by budget
BudgetQueries ==
  {[NoCriteria EXCEPT !.budget = b] : b \in {S(<<36>>), S(<<36, 36>>), S(<<36, 36, 36>>), S(<<99, 104, 101, 97, 112>>)}}

\* the :id of GET, PUT and DELETE /api/restaurants/:id
IdParams == {S(<<49>>), S(<<50, 49>>), S(<<57, 57>>), S(<<97, 98, 99>>)}

\* ------------------------------------------------------------ behaviour
\* A request runs to completion before the next is taken: the handler changes
\* the store and hands over its response in one step, and the next request is
\* taken once the response is sent.
Idle == [op |-> "idle", req |-> <<>>, status |-> 0, error |-> "", data |-> <<>>]

Served(op, req, r) ==
  [op |-> op, req |-> req, status |-> r.status, error |-> r.error, data |-> r.data]

\* new Date(): the clock, in hours
Now == today * HoursPerDay + hour

Init ==
  /\ restaurantsData = seedData
  /\ today = StartDay
  /\ hour = 0
  /\ response = Idle

Search(queries) ==
  /\ response = Idle
  /\ \E q \in queries :
       \E r \in {getRestaurants(restaurantsData, Now, q)} :
           /\ restaurantsData' = r.store
           /\ response' = Served("search", q, r)
  /\ UNCHANGED <<today, hour>>

GetById ==
  /\ response = Idle
  /\ \E id \in IdParams :
       \E r \in {getRestaurantById(restaurantsData, id)} :
           /\ restaurantsData' = r.store
           /\ response' = Served("get", [id |-> id], r)
  /\ UNCHANGED <<today, hour>>

Insert(bodies) ==
  /\ response = Idle
  /\ getNextId(restaurantsData).v <= MaxId
  /\ \E body \in bodies :
       \E r \in {postRestaurant(restaurantsData, body)} :
           /\ restaurantsData' = r.store
           /\ response' = Served("insert", body, r)
  /\ UNCHANGED <<today, hour>>

Update(bodies) ==
  /\ response = Idle
  /\ \E id \in IdParams, body \in bodies :
       \E r \in {putRestaurant(restaurantsData, id, body)} :
           /\ restaurantsData' = r.store
           /\ response' = Served("update", [id |-> id, body |-> body], r)
  /\ UNCHANGED <<today, hour>>

Delete ==
  /\ response = Idle
  /\ \E id \in IdParams :
       \E r \in {deleteRestaurant(restaurantsData, id)} :
           /\ restaurantsData' = r.store
           /\ response' = Served("delete", [id |-> id], r)
  /\ UNCHANGED <<today, hour>>

Reserve_checksEarlierStore(bodies) ==
  /\ response = Idle
  /\ \E body \in bodies :
       \E r \in {postReservation(seedData, Now, body)} :
         \E i \in {findIndex(restaurantsData, parseInt(Field(body, "restaurantId")))} :
           /\ restaurantsData' =
                IF r.status = 201 /\ i # 0
                THEN [restaurantsData EXCEPT
                        ![i] = withGuests(restaurantsData[i], parseInt(Field(body, "numGuests")))]
                ELSE restaurantsData
           /\ response' = Served("reserve", body, r)
  /\ UNCHANGED <<today, hour>>

Reserve(bodies) ==
  /\ response = Idle
  /\ \E body \in bodies :
       \E r \in {postReservation(restaurantsData, Now, body)} :
           /\ restaurantsData' = r.store
           /\ response' = Served("reserve", body, r)
  /\ UNCHANGED <<today, hour>>

\* the response is sent
Respond ==
  /\ response # Idle
  /\ response' = Idle
  /\ UNCHANGED <<restaurantsData, today, hour>>

\* twelve hours pass
Tick ==
  /\ response = Idle
  /\ today < StartDay + MaxDays
  /\ IF hour + (HoursPerDay \div 2) < HoursPerDay
     THEN hour' = hour + (HoursPerDay \div 2) /\ today' = today
     ELSE hour' = 0 /\ today' = today + 1
  /\ UNCHANGED <<restaurantsData, response>>

Next ==
  \/ Search(Queries)
  \/ GetById
  \/ Insert(InsertBodies)
  \/ Update(UpdateBodies)
  \/ Delete
  \/ Reserve(ReserveBodies)
  \/ Respond
  \/ Tick

Spec == Init /\ [][Next]_vars

\* only reservations are made
NextReserve == Reserve(ManyReserveBodies) \/ Respond \/ Tick

SpecReserve == Init /\ [][NextReserve]_vars

\* the store changes by insert, update and delete; every combination of
\* criteria is searched
NextSearch == Search(ManyQueries) \/ Insert(InsertBodies) \/ Update(UpdateBodies) \/ Respond

SpecSearch == Init /\ [][NextSearch]_vars

\* the store changes by insert, update and reservations; searches and
\* reservations are made on every weekday kind and around every boundary
NextOpen == Search(OpenQueries) \/ Reserve(OpenReserveBodies) \/ Insert(InsertBodies) \/ Update(UpdateBodies) \/ Respond

SpecOpen == Init /\ [][NextOpen]_vars

\* searches and reservations as the clock advances past the requested dates
NextDates == Search(DateQueries) \/ Reserve(DateReserveBodies) \/ Respond \/ Tick

SpecDates == Init /\ [][NextDates]_vars

\* the store as the module is loaded, or with every record deleted; records
\* are inserted, updated and deleted
InitIds ==
  /\ restaurantsData \in {seedData, <<>>}
  /\ today = StartDay
  /\ hour = 0
  /\ response = Idle

NextIds == Insert({B_plain, B_noName}) \/ Update(UpdateBodies) \/ Delete \/ Respond

SpecIds == InitIds /\ [][NextIds]_vars

\* records are inserted and updated with price tiers, read and searched by budget
NextStore ==
  \/ Insert(TierInsertBodies)
  \/ Update(TierUpdateBodies)
  \/ GetById
  \/ Search(BudgetQueries)
  \/ Respond

SpecStore == Init /\ [][NextStore]_vars

\* records are inserted, updated and deleted with bodies the handlers accept
\* and bodies they fail on, read and searched
NextFaults ==
  \/ Insert(FaultInsertBodies)
  \/ Update(FaultUpdateBodies)
  \/ Delete
  \/ GetById
  \/ Search({NoCriteria})
  \/ Respond

SpecFaults == Init /\ [][NextFaults]_vars

\* parties are searched for and reserved at several dates and times, while
\* restaurants are inserted and their capacity is updated
NextCapacity ==
  \/ Search(CapacityQueries)
  \/ Reserve(CapacityReserveBodies)
  \/ Insert({B_sized})
  \/ Update({U_guests})
  \/ Respond

SpecCapacity == Init /\ [][NextCapacity]_vars

\* restaurants are inserted with an hours string or without hours and given
\* opening hours by an update; searches and reservations are made on every
\* weekday kind and around every boundary
NextHours ==
  \/ Search(OpenQueries)
  \/ Reserve(OpenReserveBodies)
  \/ Insert({B_plain, B_bare})
  \/ Update({U_hours})
  \/ Respond

SpecHours == Init /\ [][NextHours]_vars

\* ------------------------------------------------------------ the properties
\* what the properties read of a record: the capacity fields, with the
\* defaults of the data model for an absent field
C_maxGuests(r) ==
  IF "maxGuests" \in DOMAIN r /\ r.maxGuests.t = "number" THEN r.maxGuests.v ELSE 50
C_currGuests(r) ==
  IF "currGuests" \in DOMAIN r /\ r.currGuests.t = "number" THEN r.currGuests.v ELSE 0

\* the positions of the store that hold the id a request names
C_positions(data, idValue) ==
  {i \in 1..Len(data) : data[i].id = parseInt(idValue)}

\* the store but for the field currGuests of position i
C_sameButGuests(old, new, i) ==
  /\ Len(new) = Len(old)
  /\ \A j \in 1..Len(old) : j # i => new[j] = old[j]
  /\ DOMAIN new[i] = DOMAIN old[i] \cup {"currGuests"}
  /\ \A f \in DOMAIN old[i] \ {"currGuests"} : new[i][f] = old[i][f]

\* C1: in every reachable state every stored restaurant has
\* currGuests <= maxGuests (50 and 0 standing for absent fields).
C1_CapacityInvariant ==
  \A i \in 1..Len(restaurantsData) :
    C_currGuests(restaurantsData[i]) <= C_maxGuests(restaurantsData[i])

\* C2: when only reservations are made, currGuests <= maxGuests holds of every
\* restaurant after every step, and a reservation for n guests is accepted
\* only if n <= maxGuests - currGuests; otherwise it is rejected and nothing
\* is stored (the count is not clamped to the capacity).
C2_ReserveStep ==
  response'.op = "reserve" =>
    LET n == parseInt(response'.req.numGuests)
        target == C_positions(restaurantsData, response'.req.restaurantId)
    IN  /\ response'.status = 201 =>
             \E i \in target :
               /\ n.v <= C_maxGuests(restaurantsData[i]) - C_currGuests(restaurantsData[i])
               /\ C_currGuests(restaurantsData'[i]) = C_currGuests(restaurantsData[i]) + n.v
        /\ \A i \in target :
             (n.t = "number" /\ n.v > C_maxGuests(restaurantsData[i]) - C_currGuests(restaurantsData[i]))
               => (response'.status # 201 /\ restaurantsData' = restaurantsData)

C2_ReservationsKeepCapacity ==
  /\ [](\A i \in 1..Len(restaurantsData) :
          C_currGuests(restaurantsData[i]) <= C_maxGuests(restaurantsData[i]))
  /\ [][C2_ReserveStep]_vars

\* a reservation was turned down for capacity at a restaurant that holds guests
C2_Witness ==
  /\ response.op = "reserve"
  /\ response.error = "Not enough capacity"
  /\ \E i \in C_positions(restaurantsData, response.req.restaurantId) :
       /\ C_currGuests(restaurantsData[i]) > 0
       /\ C_currGuests(restaurantsData[i]) + parseInt(response.req.numGuests).v
            > C_maxGuests(restaurantsData[i])

\* C3: a reservation that fails, for whatever reason, leaves the store as it was.
C3_FailedReserveChangesNothing ==
  [][(response'.op = "reserve" /\ response'.status # 201)
       => restaurantsData' = restaurantsData]_vars

\* a reservation failed at the last check, after guests were stored
C3_Witness ==
  /\ response.op = "reserve"
  /\ response.status = 400
  /\ response.error = "Restaurant is not open at the requested date and time"
  /\ \E i \in 1..Len(restaurantsData) : C_currGuests(restaurantsData[i]) > 0

\* C4: a successful reservation for n guests adds exactly n to currGuests of
\* the stored record with that id; the returned entity and a lookup of the id
\* show the new value; no other record and no other field changes.
C4_ReserveStep ==
  (response'.op = "reserve" /\ response'.status = 201) =>
    LET n == parseInt(response'.req.numGuests).v
        idNum == parseInt(response'.req.restaurantId)
    IN  \E i \in C_positions(restaurantsData, response'.req.restaurantId) :
          /\ C_sameButGuests(restaurantsData, restaurantsData', i)
          /\ restaurantsData'[i].currGuests = N(C_currGuests(restaurantsData[i]) + n)
          /\ response'.data[1].currGuests = N(C_currGuests(restaurantsData[i]) + n)
          /\ getRestaurantById(restaurantsData', String(idNum)).data[1].currGuests
               = N(C_currGuests(restaurantsData[i]) + n)

C4_ReserveAddsGuests == [][C4_ReserveStep]_vars

\* a second reservation was accepted at the same restaurant
C4_Witness ==
  /\ response.op = "reserve"
  /\ response.status = 201
  /\ response.data[1].currGuests.v > parseInt(response.req.numGuests).v

\* the calendar: the weekday of each date the requests carry
C_weekday ==
  D_start :> "Wednesday" @@ D_friday :> "Friday" @@ D_monday :> "Monday"
    @@ D_saturday :> "Saturday" @@ D_sunday :> "Sunday" @@ D_past :> "Tuesday"

\* minutes after midnight of a time "HH:MM"
C_minutes(time) ==
  ((time.v[1] - 48) * 10 + (time.v[2] - 48)) * 60 + (time.v[4] - 48) * 10 + (time.v[5] - 48)

\* the restaurant has a weekday entry for wd
C_hasEntry(r, wd) ==
  /\ "openingHours" \in DOMAIN r
  /\ r.openingHours.t = "object"
  /\ wd \in DOMAIN r.openingHours.v

C_entry(r, wd) == r.openingHours.v[wd].v

\* the entry is { closed: true }, with or without times
C_closedEntry(r, wd) ==
  C_hasEntry(r, wd) /\ "closed" \in DOMAIN C_entry(r, wd) /\ C_entry(r, wd).closed = Bool(TRUE)

\* the entry is an open/close pair
C_window(r, wd) ==
  /\ C_hasEntry(r, wd)
  /\ ~C_closedEntry(r, wd)
  /\ {"open", "close"} \subseteq DOMAIN C_entry(r, wd)

\* the request being answered carries a date of the calendar and a time
C_timedRequest ==
  /\ response.op \in {"search", "reserve"}
  /\ response.req.date \in DOMAIN C_weekday
  /\ response.req.time.t = "string"

\* the ids of the entities of the response
C_resultIds == {response.data[k].id : k \in 1..Len(response.data)}

\* the request is a search by date and time alone that succeeded
C_searchByTime ==
  /\ response.op = "search"
  /\ response.status = 200
  /\ response.req = [NoCriteria EXCEPT !.date = response.req.date, !.time = response.req.time]

\* the request reserves at record r
C_reservesAt(r) ==
  response.op = "reserve" /\ r.id = parseInt(response.req.restaurantId)

\* C5: a restaurant with no openingHours entry for the weekday of the date, or
\* with the entry { closed: true }, is not open at any time of that date: it
\* is in no search result for that date and no reservation for it succeeds.
C5_ClosedDayNeverOpen ==
  C_timedRequest =>
    \A i \in 1..Len(restaurantsData) :
      LET r == restaurantsData[i]
          wd == C_weekday[response.req.date]
      IN  (~C_hasEntry(r, wd) \/ C_closedEntry(r, wd)) =>
            /\ ~isRestaurantOpen(r, response.req.date, response.req.time)
            /\ (response.op = "search" /\ response.status = 200)
                 => String(r.id) \notin C_resultIds
            /\ C_reservesAt(r) => response.status # 201

\* a reservation was refused at a restaurant whose entry for the day is
\* { closed: true } and carries times that would admit the request
C5_Witness ==
  /\ response.op = "reserve"
  /\ response.error = "Restaurant is not open at the requested date and time"
  /\ response.req.date = D_saturday
  /\ response.req.time = HM(13, 0)
  /\ \E i \in 1..Len(restaurantsData) :
       /\ C_reservesAt(restaurantsData[i])
       /\ C_closedEntry(restaurantsData[i], "Saturday")
       /\ "open" \in DOMAIN C_entry(restaurantsData[i], "Saturday")

\* C6: with close >= open the restaurant is open exactly when
\* open <= time < close; an entry with close = open is never open.
C6_SameDayWindow ==
  C_timedRequest =>
    \A i \in 1..Len(restaurantsData) :
      LET r == restaurantsData[i]
          wd == C_weekday[response.req.date]
          t == C_minutes(response.req.time)
          o == C_minutes(C_entry(r, wd).open)
          c == C_minutes(C_entry(r, wd).close)
      IN  (C_window(r, wd) /\ c >= o) =>
            /\ isRestaurantOpen(r, response.req.date, response.req.time) <=> (o <= t /\ t < c)
            /\ C_searchByTime => (String(r.id) \in C_resultIds <=> (o <= t /\ t < c))
            /\ (C_reservesAt(r) /\ response.status = 201) => (o <= t /\ t < c)
            /\ c = o => ~isRestaurantOpen(r, response.req.date, response.req.time)

\* a search at the closing time of a restaurant that opened earlier that day
C6_Witness ==
  /\ C_searchByTime
  /\ response.req.date = D_monday
  /\ response.req.time = HM(23, 0)
  /\ \E i \in 1..Len(restaurantsData) :
       /\ C_window(restaurantsData[i], "Monday")
       /\ C_entry(restaurantsData[i], "Monday") = Hours(HM(12, 0), HM(23, 0)).v
       /\ String(restaurantsData[i].id) \notin C_resultIds
  /\ \E i \in 1..Len(restaurantsData) :
       /\ C_window(restaurantsData[i], "Monday")
       /\ C_entry(restaurantsData[i], "Monday") = Hours(HM(19, 0), HM(23, 30)).v
       /\ String(restaurantsData[i].id) \in C_resultIds

\* C7: with close < open the restaurant is open exactly when time >= open or
\* time < close; open 22:00, close 02:00 is open at 23:30 and 01:00 and not
\* at 02:00 and 12:00.
C7_OvernightWindow ==
  /\ C_timedRequest =>
       \A i \in 1..Len(restaurantsData) :
         LET r == restaurantsData[i]
             wd == C_weekday[response.req.date]
             t == C_minutes(response.req.time)
             o == C_minutes(C_entry(r, wd).open)
             c == C_minutes(C_entry(r, wd).close)
         IN  (C_window(r, wd) /\ c < o) =>
               /\ isRestaurantOpen(r, response.req.date, response.req.time) <=> (t >= o \/ t < c)
               /\ C_searchByTime => (String(r.id) \in C_resultIds <=> (t >= o \/ t < c))
               /\ (C_reservesAt(r) /\ response.status = 201) => (t >= o \/ t < c)
  /\ \A i \in 1..Len(restaurantsData) :
       LET r == restaurantsData[i]
       IN  (C_window(r, "Friday") /\ C_entry(r, "Friday") = Hours(HM(22, 0), HM(2, 0)).v) =>
             /\ isRestaurantOpen(r, D_friday, HM(23, 30))
             /\ isRestaurantOpen(r, D_friday, HM(1, 0))
             /\ ~isRestaurantOpen(r, D_friday, HM(2, 0))
             /\ ~isRestaurantOpen(r, D_friday, HM(12, 0))

\* a search after midnight finds a restaurant open from 22:00 to 02:00
C7_Witness ==
  /\ C_searchByTime
  /\ response.req.date = D_friday
  /\ response.req.time = HM(1, 0)
  /\ \E i \in 1..Len(restaurantsData) :
       /\ C_window(restaurantsData[i], "Friday")
       /\ C_entry(restaurantsData[i], "Friday") = Hours(HM(22, 0), HM(2, 0)).v
       /\ String(restaurantsData[i].id) \in C_resultIds

\* the predicates of the search criteria
C_tier(r) ==
  IF "price_range" \in DOMAIN r /\ r.price_range.t = "string" /\ r.price_range.v # <<>>
  THEN r.price_range
  ELSE IF "priceRange" \in DOMAIN r THEN r.priceRange ELSE Null

C_matchesCuisine(r, text) == includes(toLowerCase(r.cuisine.v), toLowerCase(text.v))
C_matchesBudget(r, b) == C_tier(r) = b
C_matchesLocation(r, text) == includes(toLowerCase(addressText(r)), toLowerCase(text.v))
C_meetsRating(r, min) == "rating" \in DOMAIN r /\ r.rating.t = "number" /\ r.rating.v >= min
C_hasCapacityFor(r, n) == C_maxGuests(r) - C_currGuests(r) >= n

\* a criterion is present when the query carries a value for it; a rating
\* that is no number and a guest count that is no positive integer are no
\* criterion
C_present(q, f) == q[f].t = "string" /\ q[f].v # <<>>
C_ratingGiven(q) == C_present(q, "rating") /\ parseFloat(q.rating).t = "number"
C_guestsGiven(q) ==
  C_present(q, "numGuests") /\ parseInt(q.numGuests).t = "number" /\ parseInt(q.numGuests).v > 0

C_matches(r, q) ==
  /\ C_present(q, "cuisine") => C_matchesCuisine(r, q.cuisine)
  /\ (C_present(q, "date") /\ C_present(q, "time")) => isRestaurantOpen(r, q.date, q.time)
  /\ C_present(q, "budget") => C_matchesBudget(r, q.budget)
  /\ C_present(q, "location") => C_matchesLocation(r, q.location)
  /\ C_ratingGiven(q) => C_meetsRating(r, parseFloat(q.rating).v)
  /\ C_guestsGiven(q) => C_hasCapacityFor(r, parseInt(q.numGuests).v)

C_select(data, q) ==
  LET keep(r) == C_matches(r, q)
  IN  SelectSeq(data, keep)

C_entities(data) == [i \in 1..Len(data) |-> transformRestaurantToFrontendFormat(data[i])]

\* C8: a search returns exactly the restaurants that satisfy the predicate of
\* every criterion of the query, and an empty result is a success.
C8_SearchIsConjunction ==
  (response.op = "search" /\ response.status = 200) =>
    response.data = C_entities(C_select(restaurantsData, response.req))

\* C9: the result of a search is a subsequence of the store: the matches in
\* store order, none twice; with no criteria it is the whole store in order.
C9_SearchKeepsOrder ==
  (response.op = "search" /\ response.status = 200) =>
    LET inResult(r) == String(r.id) \in C_resultIds
    IN  /\ response.data = C_entities(SelectSeq(restaurantsData, inResult))
        /\ Cardinality(C_resultIds) = Len(response.data)
        /\ response.req = NoCriteria => response.data = C_entities(restaurantsData)

\* a search kept some restaurants and dropped others between them
C9_Witness ==
  /\ response.op = "search"
  /\ response.status = 200
  /\ Len(response.data) >= 3
  /\ \E i, j, k \in 1..Len(restaurantsData) :
       /\ i < j /\ j < k
       /\ String(restaurantsData[i].id) \in C_resultIds
       /\ String(restaurantsData[j].id) \notin C_resultIds
       /\ String(restaurantsData[k].id) \in C_resultIds

\* the date is not of the form YYYY-MM-DD, or is no date of the calendar, or
\* lies before the current date
C_invalidDate(date, now) ==
  \/ date \in {D_slashes, D_month13, D_feb30}
  \/ date = D_past /\ now >= StartDay

\* C10: a search with a date and a time whose date fails validation fails as a
\* whole with a validation error and returns no restaurant.
C10_InvalidDateFailsSearch ==
  (/\ response.op = "search"
   /\ C_present(response.req, "date")
   /\ C_present(response.req, "time")
   /\ C_invalidDate(response.req.date, today))
    => (response.status = 400 /\ response.data = <<>>)

\* ------------------------------------------------------------ dates
\* the calendar: the days from the start day to each date the requests carry
C_daysFromStart ==
  D_past :> -1 @@ D_start :> 0 @@ D_friday :> 2 @@ D_monday :> 5
    @@ D_saturday :> 10 @@ D_sunday :> 11

\* the responses of a date that failed validation
C_dateErrors ==
  {"Date must be in YYYY-MM-DD format", "Invalid date", "Date cannot be in the past"}

\* the request being answered is one whose date is validated: a search with
\* date and time, or a reservation with all four fields
C_dateIsValidated ==
  \/ response.op = "search" /\ C_present(response.req, "date") /\ C_present(response.req, "time")
  \/ /\ response.op = "reserve"
     /\ \A f \in {"restaurantId", "date", "time", "numGuests"} : Truthy(response.req[f])

\* C11: a well-formed date before the current UTC date is rejected as past;
\* the current date, at any hour of the clock, and every later date pass
\* validation; searches and reservations alike.
C11_PastDatesRejected ==
  (C_dateIsValidated /\ response.req.date \in DOMAIN C_daysFromStart) =>
    LET day == StartDay + C_daysFromStart[response.req.date]
    IN  /\ day < today =>
             (response.status = 400 /\ response.error = "Date cannot be in the past")
        /\ day >= today => response.error \notin C_dateErrors

\* at noon a reservation for the current date passed date validation
C11_Witness ==
  /\ response.op = "reserve"
  /\ hour > 0
  /\ today = StartDay
  /\ response.req.date = D_start
  /\ response.status = 201

\* dates of the form YYYY-MM-DD that the calendar does not have
C_noncalendarDates == {D_month13, D_feb30}

\* C12: a request whose date has the form YYYY-MM-DD and is no calendar date
\* (month 13, February 30) fails date validation, so the date never reaches
\* the opening-hours check.
C12_NoncalendarDatesRejected ==
  (C_dateIsValidated /\ response.req.date \in C_noncalendarDates) =>
    (response.status = 400 /\ response.error \in C_dateErrors)

\* ------------------------------------------------------------ the rating criterion
\* C13: a search by rating alone keeps exactly the restaurants whose rating
\* is present and >= min: one stored with rating 0 is kept when min is 0, and
\* one with no rating is never kept.
C13_RatingKeepsAtLeastMin ==
  (/\ response.op = "search"
   /\ response.status = 200
   /\ C_ratingGiven(response.req)
   /\ response.req = [NoCriteria EXCEPT !.rating = response.req.rating])
    => \A i \in 1..Len(restaurantsData) :
         String(restaurantsData[i].id) \in C_resultIds
           <=> C_meetsRating(restaurantsData[i], parseFloat(response.req.rating).v)

\* ------------------------------------------------------------ ids
\* the ids of the stored records, as numbers
C_ids(data) == {data[i].id.v : i \in 1..Len(data)}

C_largest(set) == CHOOSE m \in set : \A n \in set : n <= m

\* the id an insert is to give
C_nextId(data) == IF Len(data) = 0 THEN 1 ELSE C_largest(C_ids(data)) + 1

\* C14: an accepted insert appends one record, whose id is the largest id of
\* the store plus one, or 1 when the store is empty; in every state the ids
\* of the stored records are pairwise distinct.
C14_InsertStep ==
  (response'.op = "insert" /\ response'.status = 201) =>
    /\ Len(restaurantsData') = Len(restaurantsData) + 1
    /\ SubSeq(restaurantsData', 1, Len(restaurantsData)) = restaurantsData
    /\ restaurantsData'[Len(restaurantsData')].id = N(C_nextId(restaurantsData))
    /\ response'.data[1].id = String(N(C_nextId(restaurantsData)))

C14_InsertGivesNextId ==
  /\ [][C14_InsertStep]_vars
  /\ [](\A i, j \in 1..Len(restaurantsData) :
          restaurantsData[i].id = restaurantsData[j].id => i = j)

\* an insert into the empty store was given id 1
C14_Witness ==
  /\ response.op = "insert"
  /\ response.status = 201
  /\ Len(restaurantsData) = 1
  /\ restaurantsData[1].id = N(1)
  /\ response.data[1].id = String(N(1))

\* C15: ids are given in increasing order over the lifetime of the store,
\* deletes in between included, so that no id is given twice. An insert gives
\* the id C_nextId of the store it finds (C14), and every id of the store is
\* a seed id or was given by an earlier insert; so the ids given are
\* increasing exactly when no step lowers the id the next insert is to give.
C15_NextIdNeverGoesDown ==
  [][C_nextId(restaurantsData') >= C_nextId(restaurantsData)]_vars

\* ------------------------------------------------------------ update and delete
\* the ids of the store, in store order
C_idSequence(data) == [i \in 1..Len(data) |-> data[i].id]

\* C16: an accepted update leaves the id of the record it changes as it was,
\* whatever id the body carries, and leaves the ids of the store and their
\* order as they were.
C16_UpdateStep ==
  (response'.op = "update" /\ response'.status = 200) =>
    /\ C_idSequence(restaurantsData') = C_idSequence(restaurantsData)
    /\ \E i \in C_positions(restaurantsData, response'.req.id) :
         restaurantsData'[i].id = parseInt(response'.req.id)
    /\ response'.data[1].id = String(parseInt(response'.req.id))

C16_UpdateKeepsId == [][C16_UpdateStep]_vars

\* an update whose body carries another id was accepted
C16_Witness ==
  /\ response.op = "update"
  /\ response.status = 200
  /\ "id" \in DOMAIN response.req.body
  /\ response.req.body.id # parseInt(response.req.id)

\* the fields a patch sets: its own but the id, and price_range when it
\* carries the tier under the spelling priceRange
C_patched(body) ==
  (DOMAIN body \ {"id"}) \cup (IF "priceRange" \in DOMAIN body THEN {"price_range"} ELSE {})

\* C17: an update of an existing id with a patch that holds some of the
\* fields (only rating, say) succeeds, sets the fields of the patch and
\* leaves the other fields of the record as they were.
C17_UpdateStep ==
  (response'.op = "update" /\ C_positions(restaurantsData, response'.req.id) # {}) =>
    /\ response'.status = 200
    /\ \E i \in C_positions(restaurantsData, response'.req.id) :
         LET body == response'.req.body
         IN  /\ \A f \in DOMAIN body \ {"id"} : restaurantsData'[i][f] = body[f]
             /\ \A f \in DOMAIN restaurantsData[i] \ C_patched(body) :
                  restaurantsData'[i][f] = restaurantsData[i][f]

C17_UpdateMergesPatch == [][C17_UpdateStep]_vars

\* a reservation for restaurant idValue that passes every check before the lookup
C_reservationFor(idValue) ==
  [restaurantId |-> idValue, date |-> D_monday, time |-> HM(13, 0), numGuests |-> N(1)]

\* C18: a delete of an existing id succeeds and removes exactly that record:
\* the other records stay as they were and in their order, and from the next
\* state on a lookup of the id and a reservation for it find nothing.
C18_DeleteStep ==
  (response'.op = "delete" /\ C_positions(restaurantsData, response'.req.id) # {}) =>
    /\ response'.status = 200
    /\ \E i \in C_positions(restaurantsData, response'.req.id) :
         restaurantsData' =
           SubSeq(restaurantsData, 1, i - 1) \o SubSeq(restaurantsData, i + 1, Len(restaurantsData))
    /\ C_positions(restaurantsData', response'.req.id) = {}
    /\ getRestaurantById(restaurantsData', response'.req.id).status = 404
    /\ postReservation(restaurantsData', Now, C_reservationFor(parseInt(response'.req.id))).status = 404

C18_DeleteRemovesRecord == [][C18_DeleteStep]_vars

\* after the first record was deleted, a reservation for its id found nothing
C18_Witness ==
  /\ response.op = "reserve"
  /\ response.status = 404
  /\ response.req.restaurantId = N(1)
  /\ restaurantsData[1].id = N(2)

\* ------------------------------------------------------------ price tiers
\* the tier is absent, or one of the four
C_validTier(tier) == ~Truthy(tier) \/ (tier.t = "string" /\ tier.v \in priceTiers)

\* C19: in every state the price tier of every stored restaurant, the value
\* the budget filter compares and a read returns, is absent or one of "$",
\* "$$", "$$$", "$$$$": no accepted insert or update stores another.
C19_TiersAreValid ==
  /\ \A i \in 1..Len(restaurantsData) : C_validTier(C_tier(restaurantsData[i]))
  /\ response.status \in {200, 201} =>
       \A k \in 1..Len(response.data) : C_validTier(response.data[k].priceRange)

\* ------------------------------------------------------------ the order of the checks
\* the checks of a reservation, each by its own terms
C_inputsGiven(body) ==
  /\ \A f \in {"restaurantId", "date", "time", "numGuests"} : Truthy(body[f])
  /\ parseInt(body.restaurantId).t = "number"
  /\ parseInt(body.numGuests).t = "number"
  /\ parseInt(body.numGuests).v > 0

C_dateValid(body, day) ==
  /\ body.date \in DOMAIN C_daysFromStart
  /\ StartDay + C_daysFromStart[body.date] >= day

C_openAt(r, date, time) ==
  LET wd == C_weekday[date]
      t == C_minutes(time)
      o == C_minutes(C_entry(r, wd).open)
      c == C_minutes(C_entry(r, wd).close)
  IN  /\ C_window(r, wd)
      /\ IF c < o THEN t >= o \/ t < c ELSE o <= t /\ t < c

\* the failure the checks call for, taken in order
C_firstFailure(data, day, body) ==
  IF ~C_inputsGiven(body) \/ ~C_dateValid(body, day) THEN "ValidationError"
  ELSE LET found == C_positions(data, body.restaurantId)
       IN  IF found = {} THEN "NotFoundError"
           ELSE LET r == data[CHOOSE i \in found : TRUE]
                IN  IF ~C_openAt(r, body.date, body.time) THEN "ClosedError"
                    ELSE IF parseInt(body.numGuests).v > C_maxGuests(r) - C_currGuests(r)
                         THEN "CapacityExceededError"
                    ELSE "none"

\* the failure a response reports
C_reported(resp) ==
  CASE resp.status = 201 -> "none"
    [] resp.status = 404 -> "NotFoundError"
    [] resp.error = "Restaurant is not open at the requested date and time" -> "ClosedError"
    [] resp.error = "Not enough capacity" -> "CapacityExceededError"
    [] OTHER -> "ValidationError"

\* C20: a reservation reports the first check that fails, in the order
\* inputs, date, restaurant exists, restaurant open, capacity: a bad date with
\* an unknown id is a validation error, and a closed restaurant without the
\* capacity is reported closed.
C20_ReserveStep ==
  response'.op = "reserve" =>
    C_reported(response') = C_firstFailure(restaurantsData, today, response'.req)

C20_FirstFailingCheck == [][C20_ReserveStep]_vars

\* ------------------------------------------------------------ date and time as a pair
\* the query without its date and its time
C_withoutDateTime(q) == [q EXCEPT !.date = Undefined, !.time = Undefined]

\* the query carries one of date and time and not the other
C_loneDateOrTime(q) == C_present(q, "date") # C_present(q, "time")

\* C21: a search with a date and no time, or a time and no date, is answered
\* as the same search with neither: the date is not validated, malformed or
\* past as it may be, and nothing is filtered by opening hours.
C21_LoneDateIgnored ==
  (response.op = "search" /\ C_loneDateOrTime(response.req)) =>
    /\ response.status = 200
    /\ response.data =
         getRestaurants(restaurantsData, Now, C_withoutDateTime(response.req)).data

\* a search with a malformed date and no time returned restaurants
C21_Witness ==
  /\ response.op = "search"
  /\ response.req.date = D_slashes
  /\ response.req.time = Undefined
  /\ response.status = 200
  /\ Len(response.data) > 0

\* ------------------------------------------------------------ requests as single steps
\* the requests that write the store
C_writers == {"insert", "update", "delete", "reserve"}

\* C22: a request that writes the store does so in one step, taken when no
\* other request is in progress, and that step also decides the response; for
\* a reservation the capacity test and the increment are of that one step: it
\* is accepted only when its count fits the capacity left in the state it is
\* taken in, which holds every reservation accepted before it, so two
\* reservations that together exceed the capacity left are never both accepted.
C22_WriteStep ==
  restaurantsData' # restaurantsData =>
    /\ response = Idle
    /\ response'.op \in C_writers
    /\ response'.op = "reserve" =>
         LET n == parseInt(response'.req.numGuests).v
         IN  \E i \in C_positions(restaurantsData, response'.req.restaurantId) :
               /\ response'.status = 201
               /\ n <= C_maxGuests(restaurantsData[i]) - C_currGuests(restaurantsData[i])
               /\ C_currGuests(restaurantsData'[i]) = C_currGuests(restaurantsData[i]) + n
               /\ C_currGuests(restaurantsData'[i]) <= C_maxGuests(restaurantsData'[i])

C22_WritesAreAtomic == [][C22_WriteStep]_vars

\* the second of two reservations was turned down for capacity: it fits the
\* capacity the restaurant started with, and not what the first left
C22_Witness ==
  /\ response.op = "reserve"
  /\ response.error = "Not enough capacity"
  /\ \E i \in C_positions(restaurantsData, response.req.restaurantId) :
       /\ i <= Len(seedData)
       /\ restaurantsData[i].id = seedData[i].id
       /\ C_maxGuests(restaurantsData[i]) = C_maxGuests(seedData[i])
       /\ C_currGuests(restaurantsData[i]) > C_currGuests(seedData[i])
       /\ parseInt(response.req.numGuests).v
            <= C_maxGuests(seedData[i]) - C_currGuests(seedData[i])

\* ------------------------------------------------------------ reads
\* C23: a search and a lookup by id, answered with success or with a failure,
\* leave the store as it was.
C23_ReadsChangeNothing ==
  [][response'.op \in {"search", "get"} => restaurantsData' = restaurantsData]_vars

\* a search answered with fewer restaurants than the store holds, after the
\* store was changed by a reservation
C23_Witness ==
  /\ response.op = "search"
  /\ response.status = 200
  /\ Len(response.data) > 0
  /\ Len(response.data) < Len(restaurantsData)
  /\ \E i \in 1..Len(restaurantsData) : C_currGuests(restaurantsData[i]) > 0

\* ------------------------------------------------------------ failed writes
\* C24: an insert, update or delete of a restaurant that is answered with a
\* failure leaves the store exactly as it was: no record is added, changed or
\* removed, and the next id is the same.
C24_FailedWriteChangesNothing ==
  [][(response'.op \in {"insert", "update", "delete"} /\ response'.status \notin {200, 201})
       => restaurantsData' = restaurantsData]_vars

\* ------------------------------------------------------------ search and reservation agree
\* the ids of the entities of a response
C_idsOf(data) == {data[i].id : i \in 1..Len(data)}

\* the reservation for the party of query q at record r
C_reservationOf(r, q) ==
  [restaurantId |-> r.id, date |-> q.date, time |-> q.time, numGuests |-> q.numGuests]

\* the search is for a party at a date and a time, and is answered
C_partySearch ==
  /\ response.op = "search"
  /\ response.status = 200
  /\ C_present(response.req, "date")
  /\ C_present(response.req, "time")
  /\ C_guestsGiven(response.req)

\* C25: for a valid date, a time and a positive number of guests, a restaurant
\* is in the result of the search for them exactly when a reservation of that
\* restaurant for the same date, time and number would be accepted in the same
\* state.
C25_SearchAgreesWithReserve ==
  C_partySearch =>
    \A i \in 1..Len(restaurantsData) :
      (String(restaurantsData[i].id) \in C_idsOf(response.data))
        <=> (postReservation(restaurantsData, Now,
                             C_reservationOf(restaurantsData[i], response.req)).status = 201)

\* a search left out a restaurant that is open and has too few places left,
\* and returned one that has exactly the places asked for
C25_Witness ==
  /\ C_partySearch
  /\ \E i, j \in 1..Len(restaurantsData) :
       /\ isRestaurantOpen(restaurantsData[i], response.req.date, response.req.time)
       /\ C_maxGuests(restaurantsData[i]) - C_currGuests(restaurantsData[i])
            < parseInt(response.req.numGuests).v
       /\ String(restaurantsData[i].id) \notin C_idsOf(response.data)
       /\ C_maxGuests(restaurantsData[j]) - C_currGuests(restaurantsData[j])
            = parseInt(response.req.numGuests).v
       /\ String(restaurantsData[j].id) \in C_idsOf(response.data)

\* ------------------------------------------------------------ capacity only runs out
\* the places left at a record
C_placesLeft(r) == C_maxGuests(r) - C_currGuests(r)

\* the reservation reached the capacity test
C_capacityTested(resp) ==
  resp.op = "reserve" /\ (resp.status = 201 \/ resp.error = "Not enough capacity")

\* C26: a reservation or a search lowers currGuests of no restaurant and
\* changes no maxGuests, so the places left never grow by them; and a
\* reservation that reaches the capacity test is turned down for capacity
\* exactly when its count exceeds the places left. Hence once a reservation
\* for n guests is turned down for capacity, one for m >= n guests of the same
\* restaurant is turned down too, until an insert, update or delete changes
\* the record.
C26_Step ==
  response'.op \in {"search", "reserve"} =>
    /\ Len(restaurantsData') = Len(restaurantsData)
    /\ \A i \in 1..Len(restaurantsData) :
         /\ restaurantsData'[i].id = restaurantsData[i].id
         /\ C_currGuests(restaurantsData'[i]) >= C_currGuests(restaurantsData[i])
         /\ C_maxGuests(restaurantsData'[i]) = C_maxGuests(restaurantsData[i])
    /\ C_capacityTested(response') =>
         \A i \in C_positions(restaurantsData, response'.req.restaurantId) :
           (response'.error = "Not enough capacity")
             <=> (parseInt(response'.req.numGuests).v > C_placesLeft(restaurantsData[i]))

C26_CapacityOnlyRunsOut == [][C26_Step]_vars

\* a reservation for 25 guests was turned down for capacity at a restaurant
\* that holds guests of earlier reservations, and one for 40 guests at the
\* same date and time would be turned down for capacity as well
C26_Witness ==
  /\ response.op = "reserve"
  /\ response.error = "Not enough capacity"
  /\ parseInt(response.req.numGuests).v = 25
  /\ \E i \in C_positions(restaurantsData, response.req.restaurantId) :
       /\ C_currGuests(restaurantsData[i]) > 0
       /\ C_currGuests(restaurantsData[i]) <= C_maxGuests(restaurantsData[i])
  /\ postReservation(restaurantsData, Now, [response.req EXCEPT !.numGuests = N(40)]).error
       = "Not enough capacity"

\* ------------------------------------------------------------ one counter for all dates
\* the request of resp moved to another date and time, for m guests
C_movedTo(req, d, t, m) == [req EXCEPT !.date = d, !.time = t, !.numGuests = m]

\* the search for the party of a reservation
C_searchFor(body) ==
  [NoCriteria EXCEPT !.date = body.date, !.time = body.time,
                     !.numGuests = String(parseInt(body.numGuests))]

\* C27 (step): a reservation accepted for n guests at one date and time takes n
\* from the places that reservations and searches of the same restaurant find
\* at every other date and time at which it is open.
C27_Step ==
  (response'.op = "reserve" /\ response'.status = 201) =>
    \A i \in C_positions(restaurantsData, response'.req.restaurantId) :
      \A d \in CapacityDates, t \in CapacityTimes, m \in {N(25), N(40)} :
        LET n == parseInt(response'.req.numGuests).v
            other == C_movedTo(response'.req, d, t, m)
            fits == m.v <= C_placesLeft(restaurantsData[i]) - n
        IN  isRestaurantOpen(restaurantsData'[i], d, t) =>
              /\ (postReservation(restaurantsData', Now, other).status = 201) <=> fits
              /\ (String(restaurantsData'[i].id)
                    \in C_idsOf(getRestaurants(restaurantsData', Now, C_searchFor(other)).data))
                   <=> fits

\* C27 (state): two reservations of the same restaurant for the same number of
\* guests that both reach the capacity test pass it or fail it together,
\* whatever their dates and times.
C27_SameForAllDates ==
  \A id \in {N(1), N(21)}, m \in {N(25), N(40)} :
    \A d1 \in CapacityDates, t1 \in CapacityTimes, d2 \in CapacityDates, t2 \in CapacityTimes :
      LET r1 == postReservation(restaurantsData, Now,
                  [restaurantId |-> id, date |-> d1, time |-> t1, numGuests |-> m])
          r2 == postReservation(restaurantsData, Now,
                  [restaurantId |-> id, date |-> d2, time |-> t2, numGuests |-> m])
      IN  (C_capacityTested(Served("reserve", <<>>, r1)) /\ C_capacityTested(Served("reserve", <<>>, r2)))
            => r1.status = r2.status

\* C27: capacity is one counter per restaurant, shared by all dates and times.
C27_OneCounterForAllDates == []C27_SameForAllDates /\ [][C27_Step]_vars

\* a reservation was accepted, and the same number of guests at another date,
\* at which the restaurant is open, would now be turned down for capacity
C27_Witness ==
  /\ response.op = "reserve"
  /\ response.status = 201
  /\ \E d \in CapacityDates \ {response.req.date}, t \in CapacityTimes :
       postReservation(restaurantsData, Now,
                       C_movedTo(response.req, d, t, response.req.numGuests)).error
         = "Not enough capacity"

\* ------------------------------------------------------------ capacity of a new restaurant
\* a reservation of record r for n guests on Monday at 13:00
C_mondayLunch(r, n) ==
  [restaurantId |-> r.id, date |-> D_monday, time |-> HM(13, 0), numGuests |-> N(n)]

\* the restaurant is found by the search for n guests on Monday at 13:00
C_foundFor(data, r, n) ==
  String(r.id) \in C_idsOf(getRestaurants(data, Now, C_searchFor(C_mondayLunch(r, n))).data)

\* C28 (state): the restaurant an insert has just created is returned with
\* maxGuests 50 and currGuests 0, whatever the payload carried, and
\* reservations and searches find 50 places at it: a party of 50 is accepted
\* and found, a party of 51 is turned down for capacity and not found.
C28_AtInsert ==
  (response.op = "insert" /\ response.status = 201) =>
    LET created == restaurantsData[Len(restaurantsData)]
    IN  /\ response.data[1].id = String(created.id)
        /\ response.data[1].maxGuests = N(50)
        /\ response.data[1].currGuests = N(0)
        /\ isRestaurantOpen(created, D_monday, HM(13, 0)) =>
             /\ postReservation(restaurantsData, Now, C_mondayLunch(created, 50)).status = 201
             /\ postReservation(restaurantsData, Now, C_mondayLunch(created, 51)).error
                  = "Not enough capacity"
             /\ C_foundFor(restaurantsData, created, 50)
             /\ ~C_foundFor(restaurantsData, created, 51)

\* C28 (step): no request but an update gives a record another capacity, and
\* only an accepted reservation changes its number of guests.
C28_Step ==
  response'.op \in {"search", "get", "reserve", "insert"} =>
    \A i \in 1..Len(restaurantsData) :
      /\ C_maxGuests(restaurantsData'[i]) = C_maxGuests(restaurantsData[i])
      /\ Field(restaurantsData'[i], "maxGuests") = Field(restaurantsData[i], "maxGuests")
      /\ ~(response'.op = "reserve" /\ response'.status = 201)
           => Field(restaurantsData'[i], "currGuests") = Field(restaurantsData[i], "currGuests")

\* C28: a restaurant created by insert starts with a capacity of 50 and no
\* guests whatever the payload carried, and keeps that capacity until an
\* update sets it.
C28_InsertStartsWithDefaults == []C28_AtInsert /\ [][C28_Step]_vars

\* an insert whose payload carried maxGuests 10 and currGuests 5 created a
\* restaurant that is open on Monday at 13:00 and takes a party of 50
C28_Witness ==
  /\ response.op = "insert"
  /\ response.status = 201
  /\ response.req.maxGuests = N(10)
  /\ response.req.currGuests = N(5)
  /\ response.data[1].maxGuests = N(50)
  /\ postReservation(restaurantsData, Now,
                     C_mondayLunch(restaurantsData[Len(restaurantsData)], 50)).status = 201

\* ------------------------------------------------------------ no opening hours
\* the record has no openingHours object
C_noOpeningHours(r) ==
  ~("openingHours" \in DOMAIN r /\ r.openingHours.t = "object")

\* the reservation passed every check before the one of the opening hours
C_openTested(resp) ==
  /\ resp.op = "reserve"
  /\ \/ resp.status = 201
     \/ resp.error \in {"Restaurant is not open at the requested date and time",
                        "Not enough capacity"}

\* C29: a restaurant without an openingHours object, whether it has an
\* hours_of_operation string or no hours at all, is open at no date and time:
\* it is in no result of a search by date and time, and every reservation of
\* it that reaches the check of the opening hours is refused as closed.
C29_NoHoursNeverOpen ==
  \A i \in 1..Len(restaurantsData) :
    C_noOpeningHours(restaurantsData[i]) =>
      /\ \A d \in OpenDates, t \in OpenTimes : ~isRestaurantOpen(restaurantsData[i], d, t)
      /\ (/\ response.op = "search"
          /\ response.status = 200
          /\ C_present(response.req, "date")
          /\ C_present(response.req, "time"))
           => String(restaurantsData[i].id) \notin C_resultIds
      /\ (C_reservesAt(restaurantsData[i]) /\ C_openTested(response))
           => response.error = "Restaurant is not open at the requested date and time"

\* a reservation on Monday at 13:00 was refused as closed at a restaurant
\* whose hours string reads "Daily: 08:00-22:00"
C29_Witness ==
  /\ response.op = "reserve"
  /\ response.error = "Restaurant is not open at the requested date and time"
  /\ response.req.date = D_monday
  /\ response.req.time = HM(13, 0)
  /\ \E i \in 1..Len(restaurantsData) :
       /\ C_reservesAt(restaurantsData[i])
       /\ C_noOpeningHours(restaurantsData[i])
       /\ Field(restaurantsData[i], "hours_of_operation") = B_plain.hours_of_operation

\* ------------------------------------------------------------ the weekday's own entry
\* the weekday before a weekday
C_dayBefore ==
  "Sunday" :> "Saturday" @@ "Monday" :> "Sunday" @@ "Tuesday" :> "Monday"
    @@ "Wednesday" :> "Tuesday" @@ "Thursday" :> "Wednesday" @@ "Friday" :> "Thursday"
    @@ "Saturday" :> "Friday"

\* entries to put in the place of a weekday's entry
C_otherEntries ==
  {ClosedDay, Hours(HM(0, 0), HM(23, 30)), Hours(HM(22, 0), HM(2, 0)), Hours(HM(20, 0), HM(9, 0))}

\* the record with entry e for weekday wd
C_withEntry(r, wd, e) ==
  [r EXCEPT !.openingHours =
     Obj([k \in DOMAIN r.openingHours.v \cup {wd} |-> IF k = wd THEN e ELSE r.openingHours.v[k]])]

\* the record without an entry for weekday wd
C_withoutEntry(r, wd) ==
  [r EXCEPT !.openingHours = Obj([k \in DOMAIN r.openingHours.v \ {wd} |-> r.openingHours.v[k]])]

\* the entry of weekday wd is an overnight window that has not yet closed at t
C_overnightTail(r, wd, t) ==
  /\ C_window(r, wd)
  /\ C_minutes(C_entry(r, wd).close) < C_minutes(C_entry(r, wd).open)
  /\ C_minutes(t) < C_minutes(C_entry(r, wd).close)

\* the weekday's own entry admits the time
C_admits(r, wd, t) ==
  /\ C_window(r, wd)
  /\ LET o == C_minutes(C_entry(r, wd).open)
         c == C_minutes(C_entry(r, wd).close)
     IN  IF c < o THEN C_minutes(t) >= o \/ C_minutes(t) < c
         ELSE o <= C_minutes(t) /\ C_minutes(t) < c

\* C30: whether a restaurant is open at a date and time is decided by the
\* openingHours entry of the weekday of that date alone. With an overnight
\* entry (close < open) on that weekday, a time before close is open whatever
\* the entry of the weekday before; and the early hours of an overnight entry
\* are not carried to the next weekday, where the time is open only if that
\* weekday's own entry admits it.
C30_OwnWeekdayEntryDecides ==
  C_timedRequest =>
    \A i \in 1..Len(restaurantsData) :
      LET r == restaurantsData[i]
          d == response.req.date
          t == response.req.time
          wd == C_weekday[d]
          before == C_dayBefore[wd]
      IN  ~C_noOpeningHours(r) =>
            /\ \A e \in C_otherEntries :
                 isRestaurantOpen(C_withEntry(r, before, e), d, t) <=> isRestaurantOpen(r, d, t)
            /\ isRestaurantOpen(C_withoutEntry(r, before), d, t) <=> isRestaurantOpen(r, d, t)
            /\ C_overnightTail(r, wd, t) =>
                 /\ isRestaurantOpen(r, d, t)
                 /\ C_searchByTime => String(r.id) \in C_resultIds
            /\ C_overnightTail(r, before, t) =>
                 /\ isRestaurantOpen(r, d, t) <=> C_admits(r, wd, t)
                 /\ C_searchByTime => (String(r.id) \in C_resultIds <=> C_admits(r, wd, t))
                 /\ (C_reservesAt(r) /\ response.status = 201) => C_admits(r, wd, t)

\* a search on a Saturday at 01:00 left out a restaurant whose Friday entry is
\* 22:00 to 02:00 and whose Saturday entry is closed
C30_Witness ==
  /\ C_searchByTime
  /\ response.req.date = D_saturday
  /\ response.req.time = HM(1, 0)
  /\ \E i \in 1..Len(restaurantsData) :
       /\ C_overnightTail(restaurantsData[i], "Friday", HM(1, 0))
       /\ C_closedEntry(restaurantsData[i], "Saturday")
       /\ String(restaurantsData[i].id) \notin C_resultIds

====
